---- MODULE Spec2Model ----
(***************************************************************************)
(* A model of the nessu NES emulator core (crates/nessu-lib): the bus and  *)
(* frame driver (nes.rs), the per-cycle 6502 state machine (cpu.rs, op.rs),*)
(* the PPU timing grid and register file (ppu.rs) and the cartridge        *)
(* mappers (mapper/*.rs).                                                  *)
(*                                                                         *)
(* The emulator is single-threaded.  Its state is the Nes struct; the      *)
(* operators below are written as functions from a machine record          *)
(*   n = [cpu, ppu, cart, counter, err]                                    *)
(* to the machine record after the call, so that a Rust method taking      *)
(* &mut self becomes an operator n |-> n'.  n.err holds the Err(String) a  *)
(* call returns ("" for Ok(())).  Byte vectors (internal RAM, PRG-ROM,     *)
(* CHR, OAM, VRAM) are kept sparse: [len, fill, w] stands for the vector of*)
(* length len whose cell i holds w[i] when i is in DOMAIN w, else fill.    *)
(***************************************************************************)
EXTENDS Integers, Sequences, FiniteSets, TLC

VARIABLES
  cpu,      \* Nes.cpu   (cpu.rs:31-82)
  ppu,      \* Nes.ppu   (ppu.rs:46-101)
  cart,     \* Nes.cart  (cartridge.rs:6-10)
  counter,  \* Nes.counter (nes.rs:16)
  ret,      \* the Result of the last call into the Nes API ("" is Ok(()))
  drv,      \* the driver: which Nes call is running and where its loop stands
  obs       \* what the harness observed of the calls made so far

vars == <<cpu, ppu, cart, counter, ret, drv, obs>>

(***************************** bit arithmetic ******************************)

RECURSIVE BitAnd(_, _)
BitAnd(a, b) ==
  IF a = 0 \/ b = 0 THEN 0
  ELSE (a % 2) * (b % 2) + 2 * BitAnd(a \div 2, b \div 2)

BitOr(a, b) == a + b - BitAnd(a, b)

BitXor(a, b) == a + b - 2 * BitAnd(a, b)

has_bits(v, bits) == BitAnd(v, bits) = bits

high_u8(v) == (v \div 256) % 256

low_u8(v) == v % 256

(**************************** sparse byte vectors **************************)

VecNew(len, fill) == [len |-> len, fill |-> fill, w |-> <<>>]

VecGet(v, i) == IF i \in DOMAIN v.w THEN v.w[i] ELSE v.fill

VecSet(v, i, x) == [v EXCEPT !.w = (i :> x) @@ @]

(******************************** op.rs ************************************)

into_op(code) ==
  CASE code \in {\h69} -> <<"Adc", "Immediate", "Read">>
    [] code \in {\h65} -> <<"Adc", "ZeroPage", "Read">>
    [] code \in {\h75} -> <<"Adc", "ZeroPageX", "Read">>
    [] code \in {\h6D} -> <<"Adc", "Absolute", "Read">>
    [] code \in {\h7D} -> <<"Adc", "AbsoluteX", "Read">>
    [] code \in {\h79} -> <<"Adc", "AbsoluteY", "Read">>
    [] code \in {\h61} -> <<"Adc", "IndirectX", "Read">>
    [] code \in {\h71} -> <<"Adc", "IndirectY", "Read">>
    [] code \in {\h29} -> <<"And", "Immediate", "Read">>
    [] code \in {\h25} -> <<"And", "ZeroPage", "Read">>
    [] code \in {\h35} -> <<"And", "ZeroPageX", "Read">>
    [] code \in {\h2D} -> <<"And", "Absolute", "Read">>
    [] code \in {\h3D} -> <<"And", "AbsoluteX", "Read">>
    [] code \in {\h39} -> <<"And", "AbsoluteY", "Read">>
    [] code \in {\h21} -> <<"And", "IndirectX", "Read">>
    [] code \in {\h31} -> <<"And", "IndirectY", "Read">>
    [] code \in {\h0A} -> <<"Asl", "Accumulator", "ReadModifyWrite">>
    [] code \in {\h06} -> <<"Asl", "ZeroPage", "ReadModifyWrite">>
    [] code \in {\h16} -> <<"Asl", "ZeroPageX", "ReadModifyWrite">>
    [] code \in {\h0E} -> <<"Asl", "Absolute", "ReadModifyWrite">>
    [] code \in {\h1E} -> <<"Asl", "AbsoluteX", "ReadModifyWrite">>
    [] code \in {\h24} -> <<"Bit", "ZeroPage", "Read">>
    [] code \in {\h2C} -> <<"Bit", "Absolute", "Read">>
    [] code \in {\h4C} -> <<"Jmp", "Absolute", "Read">>
    [] code \in {\h6C} -> <<"Jmp", "Indirect", "Read">>
    [] code \in {\hA9} -> <<"Lda", "Immediate", "Read">>
    [] code \in {\hA5} -> <<"Lda", "ZeroPage", "Read">>
    [] code \in {\hB5} -> <<"Lda", "ZeroPageX", "Read">>
    [] code \in {\hAD} -> <<"Lda", "Absolute", "Read">>
    [] code \in {\hBD} -> <<"Lda", "AbsoluteX", "Read">>
    [] code \in {\hB9} -> <<"Lda", "AbsoluteY", "Read">>
    [] code \in {\hA1} -> <<"Lda", "IndirectX", "Read">>
    [] code \in {\hB1} -> <<"Lda", "IndirectY", "Read">>
    [] code \in {\hA2} -> <<"Ldx", "Immediate", "Read">>
    [] code \in {\hA6} -> <<"Ldx", "ZeroPage", "Read">>
    [] code \in {\hB6} -> <<"Ldx", "ZeroPageY", "Read">>
    [] code \in {\hAE} -> <<"Ldx", "Absolute", "Read">>
    [] code \in {\hBE} -> <<"Ldx", "AbsoluteY", "Read">>
    [] code \in {\hA0} -> <<"Ldy", "Immediate", "Read">>
    [] code \in {\hA4} -> <<"Ldy", "ZeroPage", "Read">>
    [] code \in {\hB4} -> <<"Ldy", "ZeroPageX", "Read">>
    [] code \in {\hAC} -> <<"Ldy", "Absolute", "Read">>
    [] code \in {\hBC} -> <<"Ldy", "AbsoluteX", "Read">>
    [] code \in {\h85} -> <<"Sta", "ZeroPage", "Write">>
    [] code \in {\h95} -> <<"Sta", "ZeroPageX", "Write">>
    [] code \in {\h8D} -> <<"Sta", "Absolute", "Write">>
    [] code \in {\h9D} -> <<"Sta", "AbsoluteX", "Write">>
    [] code \in {\h99} -> <<"Sta", "AbsoluteY", "Write">>
    [] code \in {\h81} -> <<"Sta", "IndirectX", "Write">>
    [] code \in {\h91} -> <<"Sta", "IndirectY", "Write">>
    [] code \in {\hC9} -> <<"Cmp", "Immediate", "Read">>
    [] code \in {\hC5} -> <<"Cmp", "ZeroPage", "Read">>
    [] code \in {\hD5} -> <<"Cmp", "ZeroPageX", "Read">>
    [] code \in {\hCD} -> <<"Cmp", "Absolute", "Read">>
    [] code \in {\hDD} -> <<"Cmp", "AbsoluteX", "Read">>
    [] code \in {\hD9} -> <<"Cmp", "AbsoluteY", "Read">>
    [] code \in {\hC1} -> <<"Cmp", "IndirectX", "Read">>
    [] code \in {\hD1} -> <<"Cmp", "IndirectY", "Read">>
    [] code \in {\h09} -> <<"Ora", "Immediate", "Read">>
    [] code \in {\h05} -> <<"Ora", "ZeroPage", "Read">>
    [] code \in {\h15} -> <<"Ora", "ZeroPageX", "Read">>
    [] code \in {\h0D} -> <<"Ora", "Absolute", "Read">>
    [] code \in {\h1D} -> <<"Ora", "AbsoluteX", "Read">>
    [] code \in {\h19} -> <<"Ora", "AbsoluteY", "Read">>
    [] code \in {\h01} -> <<"Ora", "IndirectX", "Read">>
    [] code \in {\h11} -> <<"Ora", "IndirectY", "Read">>
    [] code \in {\h49} -> <<"Eor", "Immediate", "Read">>
    [] code \in {\h45} -> <<"Eor", "ZeroPage", "Read">>
    [] code \in {\h55} -> <<"Eor", "ZeroPageX", "Read">>
    [] code \in {\h4D} -> <<"Eor", "Absolute", "Read">>
    [] code \in {\h5D} -> <<"Eor", "AbsoluteX", "Read">>
    [] code \in {\h59} -> <<"Eor", "AbsoluteY", "Read">>
    [] code \in {\h41} -> <<"Eor", "IndirectX", "Read">>
    [] code \in {\h51} -> <<"Eor", "IndirectY", "Read">>
    [] code \in {\h4A} -> <<"Lsr", "Accumulator", "ReadModifyWrite">>
    [] code \in {\h4E} -> <<"Lsr", "Absolute", "ReadModifyWrite">>
    [] code \in {\h5E} -> <<"Lsr", "AbsoluteX", "ReadModifyWrite">>
    [] code \in {\h46} -> <<"Lsr", "ZeroPage", "ReadModifyWrite">>
    [] code \in {\h56} -> <<"Lsr", "ZeroPageX", "ReadModifyWrite">>
    [] code \in {\hE6} -> <<"Inc", "ZeroPage", "ReadModifyWrite">>
    [] code \in {\hF6} -> <<"Inc", "ZeroPageX", "ReadModifyWrite">>
    [] code \in {\hEE} -> <<"Inc", "Absolute", "ReadModifyWrite">>
    [] code \in {\hFE} -> <<"Inc", "AbsoluteX", "ReadModifyWrite">>
    [] code \in {\hC6} -> <<"Dec", "ZeroPage", "ReadModifyWrite">>
    [] code \in {\hD6} -> <<"Dec", "ZeroPageX", "ReadModifyWrite">>
    [] code \in {\hCE} -> <<"Dec", "Absolute", "ReadModifyWrite">>
    [] code \in {\hDE} -> <<"Dec", "AbsoluteX", "ReadModifyWrite">>
    [] code \in {\hE0} -> <<"Cpx", "Immediate", "Read">>
    [] code \in {\hE4} -> <<"Cpx", "ZeroPage", "Read">>
    [] code \in {\hEC} -> <<"Cpx", "Absolute", "Read">>
    [] code \in {\hC0} -> <<"Cpy", "Immediate", "Read">>
    [] code \in {\hC4} -> <<"Cpy", "ZeroPage", "Read">>
    [] code \in {\hCC} -> <<"Cpy", "Absolute", "Read">>
    [] code \in {\h86} -> <<"Stx", "ZeroPage", "Write">>
    [] code \in {\h96} -> <<"Stx", "ZeroPageY", "Write">>
    [] code \in {\h8E} -> <<"Stx", "Absolute", "Write">>
    [] code \in {\h84} -> <<"Sty", "ZeroPage", "Write">>
    [] code \in {\h94} -> <<"Sty", "ZeroPageX", "Write">>
    [] code \in {\h8C} -> <<"Sty", "Absolute", "Write">>
    [] code \in {\h20} -> <<"Jsr", "Absolute", "Read">>
    [] code \in {\hE9, \hEB} -> <<"Sbc", "Immediate", "Read">>
    [] code \in {\hED} -> <<"Sbc", "Absolute", "Read">>
    [] code \in {\hFD} -> <<"Sbc", "AbsoluteX", "Read">>
    [] code \in {\hF9} -> <<"Sbc", "AbsoluteY", "Read">>
    [] code \in {\hE5} -> <<"Sbc", "ZeroPage", "Read">>
    [] code \in {\hF5} -> <<"Sbc", "ZeroPageX", "Read">>
    [] code \in {\hE1} -> <<"Sbc", "IndirectX", "Read">>
    [] code \in {\hF1} -> <<"Sbc", "IndirectY", "Read">>
    [] code \in {\h60} -> <<"Rts", "Implied", "Read">>
    [] code \in {\h00} -> <<"Brk", "Implied", "Read">>
    [] code \in {\hAA} -> <<"Tax", "Implied", "Read">>
    [] code \in {\h8A} -> <<"Txa", "Implied", "Read">>
    [] code \in {\hCA} -> <<"Dex", "Implied", "Read">>
    [] code \in {\hE8} -> <<"Inx", "Implied", "Read">>
    [] code \in {\hA8} -> <<"Tay", "Implied", "Read">>
    [] code \in {\h98} -> <<"Tya", "Implied", "Read">>
    [] code \in {\h88} -> <<"Dey", "Implied", "Read">>
    [] code \in {\hC8} -> <<"Iny", "Implied", "Read">>
    [] code \in {\h9A} -> <<"Txs", "Implied", "Read">>
    [] code \in {\hBA} -> <<"Tsx", "Implied", "Read">>
    [] code \in {\h48} -> <<"Pha", "Implied", "Read">>
    [] code \in {\h68} -> <<"Pla", "Implied", "Read">>
    [] code \in {\h08} -> <<"Php", "Implied", "Read">>
    [] code \in {\h28} -> <<"Plp", "Implied", "Read">>
    [] code \in {\h10} -> <<"Bpl", "Relative", "Read">>
    [] code \in {\h30} -> <<"Bmi", "Relative", "Read">>
    [] code \in {\h50} -> <<"Bvc", "Relative", "Read">>
    [] code \in {\h70} -> <<"Bvs", "Relative", "Read">>
    [] code \in {\h90} -> <<"Bcc", "Relative", "Read">>
    [] code \in {\hB0} -> <<"Bcs", "Relative", "Read">>
    [] code \in {\hD0} -> <<"Bne", "Relative", "Read">>
    [] code \in {\hF0} -> <<"Beq", "Relative", "Read">>
    [] code \in {\h18} -> <<"Clc", "Implied", "Read">>
    [] code \in {\h38} -> <<"Sec", "Implied", "Read">>
    [] code \in {\h58} -> <<"Cli", "Implied", "Read">>
    [] code \in {\h78} -> <<"Sei", "Implied", "Read">>
    [] code \in {\hB8} -> <<"Clv", "Implied", "Read">>
    [] code \in {\hD8} -> <<"Cld", "Implied", "Read">>
    [] code \in {\hF8} -> <<"Sed", "Implied", "Read">>
    [] code \in {\h40} -> <<"Rti", "Implied", "Read">>
    [] code \in {\h2A} -> <<"Rol", "Accumulator", "ReadModifyWrite">>
    [] code \in {\h26} -> <<"Rol", "ZeroPage", "ReadModifyWrite">>
    [] code \in {\h36} -> <<"Rol", "ZeroPageX", "ReadModifyWrite">>
    [] code \in {\h2E} -> <<"Rol", "Absolute", "ReadModifyWrite">>
    [] code \in {\h3E} -> <<"Rol", "AbsoluteX", "ReadModifyWrite">>
    [] code \in {\h6A} -> <<"Ror", "Accumulator", "ReadModifyWrite">>
    [] code \in {\h6E} -> <<"Ror", "Absolute", "ReadModifyWrite">>
    [] code \in {\h7E} -> <<"Ror", "AbsoluteX", "ReadModifyWrite">>
    [] code \in {\h66} -> <<"Ror", "ZeroPage", "ReadModifyWrite">>
    [] code \in {\h76} -> <<"Ror", "ZeroPageX", "ReadModifyWrite">>
    [] code \in {\hEA, \h1A, \h3A, \h5A, \h7A, \hDA, \hFA} -> <<"Nop", "Implied", "Read">>
    [] code \in {\h04, \h44, \h64} -> <<"Dop", "ZeroPage", "Read">>
    [] code \in {\h14, \h34, \h54, \h74, \hD4, \hF4} -> <<"Dop", "ZeroPageX", "Read">>
    [] code \in {\h80, \h82, \h89, \hC2, \hE2} -> <<"Dop", "Immediate", "Read">>
    [] code \in {\h0B, \h2B} -> <<"Aac", "Immediate", "Read">>
    [] code \in {\h4B} -> <<"Asr", "Immediate", "Read">>
    [] OTHER -> <<>>


(***************************** mapper/nrom.rs ******************************)

NromMapper_new(prg_rom, chr) ==
  [kind |-> "NROM", prg_rom |-> prg_rom, chr |-> chr,
   prg_mirrored |-> prg_rom.len <= \h4000]

nrom_effective_cpu_addr(m, addr) ==
  IF addr \in \hC000 .. \hFFFF /\ m.prg_mirrored THEN addr - \h4000 ELSE addr

nrom_cpu_read_u8(m, addr0) ==
  LET addr == nrom_effective_cpu_addr(m, addr0)
  IN IF addr \in \h8000 .. \hFFFF /\ addr - \h8000 < m.prg_rom.len
     THEN VecGet(m.prg_rom, addr - \h8000)
     ELSE 0

nrom_cpu_write_u8(m, addr0, val) ==
  LET addr == nrom_effective_cpu_addr(m, addr0)
  IN IF addr \in \h8000 .. \hFFFF /\ addr - \h8000 < m.prg_rom.len
     THEN [m EXCEPT !.prg_rom = VecSet(@, addr - \h8000, val)]
     ELSE m

(***************************** mapper/mmc3.rs ******************************)

Mmc3Mapper_new(prg_rom, chr, prg_ram) ==
  [kind |-> "MMC3", prg_ram |-> prg_ram, prg_rom |-> prg_rom, chr |-> chr,
   r |-> [i \in 0 .. 7 |-> 0],
   prg_bank_8000 |-> 0, prg_bank_a000 |-> \h2000,
   prg_bank_c000 |-> prg_rom.len - \h4000,
   prg_bank_e000 |-> prg_rom.len - \h2000,
   chr_r0 |-> 0, chr_r1 |-> 0, chr_r2 |-> 0, chr_r3 |-> 0, chr_r4 |-> 0,
   chr_r5 |-> 0,
   mirroring |-> "Horizontal",
   prg_ram_enabled |-> FALSE, prg_ram_read_only |-> FALSE,
   next_bank_update |-> 0, prg_rom_mode |-> 0, chr_a12_inversion |-> 0,
   irq_reload |-> 0, irq_counter |-> 0,
   irq_enabled |-> FALSE, irq_triggered |-> FALSE]

bank_select(m, val) ==
  [m EXCEPT !.next_bank_update = val % 8,
            !.prg_rom_mode = (val \div 64) % 2,
            !.chr_a12_inversion = (val \div 128) % 2]

set_bank_data(m, val) ==
  LET r == [m.r EXCEPT ![m.next_bank_update] = val]
      r6 == (r[6] % 64) * \h2000
      last == m.prg_rom.len - \h4000
  IN [m EXCEPT !.r = r,
               !.chr_r0 = (r[0] - (r[0] % 2)) * \h400,
               !.chr_r1 = (r[1] - (r[1] % 2)) * \h400,
               !.chr_r2 = r[2] * \h400,
               !.chr_r3 = r[3] * \h400,
               !.chr_r4 = r[4] * \h400,
               !.chr_r5 = r[5] * \h400,
               !.prg_bank_8000 = IF m.prg_rom_mode = 0 THEN r6 ELSE last,
               !.prg_bank_c000 = IF m.prg_rom_mode = 0 THEN last ELSE r6,
               !.prg_bank_a000 = (r[7] % 64) * \h2000]

set_irq_latch(m, val) == [m EXCEPT !.irq_reload = val]

reset_irq_counter(m) == [m EXCEPT !.irq_counter = 0]

enable_irq(m) == [m EXCEPT !.irq_enabled = TRUE]

disable_irq(m) == [m EXCEPT !.irq_enabled = FALSE, !.irq_triggered = FALSE]

\* An index past the end of the image makes the read panic: the result is -1.
mmc3_cpu_read_u8(m, addr) ==
  LET rom(i) == IF i < m.prg_rom.len THEN VecGet(m.prg_rom, i) ELSE -1
  IN CASE addr \in \h6000 .. \h7FFF -> VecGet(m.prg_ram, addr % \h2000)
       [] addr \in \h8000 .. \h9FFF -> rom((addr % \h2000) + m.prg_bank_8000)
       [] addr \in \hA000 .. \hBFFF -> rom((addr % \h2000) + m.prg_bank_a000)
       [] addr \in \hC000 .. \hDFFF -> rom((addr % \h2000) + m.prg_bank_c000)
       [] addr \in \hE000 .. \hFFFF -> rom((addr % \h2000) + m.prg_bank_e000)
       [] OTHER -> 0

mmc3_cpu_write_u8(m, addr, val) ==
  LET even == addr % 2 = 0
  IN CASE addr \in \h6000 .. \h7FFF ->
            IF m.prg_ram_read_only THEN m
            ELSE [m EXCEPT !.prg_ram = VecSet(@, addr - \h6000, val)]
       [] addr \in \h8000 .. \h9FFF ->
            IF even THEN bank_select(m, val) ELSE set_bank_data(m, val)
       [] addr \in \hA000 .. \hBFFF ->
            IF even
            THEN [m EXCEPT !.mirroring =
                    IF val % 2 = 0 THEN "Vertical" ELSE "Horizontal"]
            ELSE [m EXCEPT !.prg_ram_enabled = has_bits(val, \h80),
                           !.prg_ram_read_only = has_bits(val, \h40)]
       [] addr \in \hC000 .. \hDFFF ->
            IF even THEN set_irq_latch(m, val) ELSE reset_irq_counter(m)
       [] addr \in \hE000 .. \hFFFF ->
            IF even THEN disable_irq(m) ELSE enable_irq(m)
       [] OTHER -> m

mmc3_effective_ppu_addr(m, addr) ==
  IF m.chr_a12_inversion = 0
  THEN CASE addr \in \h0000 .. \h07FF -> addr + m.chr_r0
         [] addr \in \h0800 .. \h0FFF -> (addr - \h0800) + m.chr_r1
         [] addr \in \h1000 .. \h13FF -> (addr - \h1000) + m.chr_r2
         [] addr \in \h1400 .. \h17FF -> (addr - \h1400) + m.chr_r3
         [] addr \in \h1800 .. \h1BFF -> (addr - \h1800) + m.chr_r4
         [] addr \in \h1C00 .. \h1FFF -> (addr - \h1C00) + m.chr_r5
         [] OTHER -> -1
  ELSE CASE addr \in \h0000 .. \h03FF -> addr + m.chr_r2
         [] addr \in \h0400 .. \h07FF -> (addr - \h0400) + m.chr_r3
         [] addr \in \h0800 .. \h0BFF -> (addr - \h0800) + m.chr_r4
         [] addr \in \h0C00 .. \h0FFF -> (addr - \h0C00) + m.chr_r5
         [] addr \in \h1000 .. \h17FF -> (addr - \h1000) + m.chr_r0
         [] addr \in \h1800 .. \h1FFF -> (addr - \h1800) + m.chr_r1
         [] OTHER -> -1

\* MapperTrait::irq_triggered: reads the flag and leaves it false (mem::take).
\* The result is [val, m]: the value returned and the mapper afterwards.
mmc3_irq_triggered(m) ==
  [val |-> m.irq_triggered, m |-> [m EXCEPT !.irq_triggered = FALSE]]

\* A counter that counts the reload as a decrement.
mmc3_clock_irq_short(m) ==
  LET cnt == IF m.irq_counter = 0
             THEN (IF m.irq_reload = 0 THEN 0 ELSE m.irq_reload - 1)
             ELSE m.irq_counter - 1
  IN [m EXCEPT !.irq_counter = cnt,
               !.irq_triggered = IF cnt = 0 /\ m.irq_enabled THEN TRUE ELSE @]

mmc3_clock_irq(m) ==
  LET cnt == IF m.irq_counter = 0 THEN m.irq_reload ELSE m.irq_counter - 1
  IN [m EXCEPT !.irq_counter = cnt,
               !.irq_triggered = IF cnt = 0 /\ m.irq_enabled THEN TRUE ELSE @]

(***************************** mapper/mmc1.rs ******************************)

\* prev_write_cycle starts at u128::MAX - 1, a cycle no run reaches; it is
\* kept here as -2, so that prev_write_cycle + 1 is no cycle count either.
Mmc1Mapper_new(prg_rom, chr, prg_ram) ==
  [kind |-> "MMC1", prg_ram |-> prg_ram, prg_rom |-> prg_rom, chr |-> chr,
   chr_bank0 |-> 0, chr_bank1 |-> 1, prg_bank |-> 0,
   prg_bank_mode |-> 3, chr_bank_mode |-> 0, mirroring |-> 0,
   shift_register |-> \h10, prev_write_cycle |-> -2]

control_register(m) ==
  BitOr(m.mirroring, BitOr(m.prg_bank_mode * 4, m.chr_bank_mode * 16))

set_control_register(m, val) ==
  [m EXCEPT !.prg_bank_mode = (val \div 4) % 4,
            !.chr_bank_mode = (val \div 16) % 2,
            !.mirroring = val % 4]

\* A serial port that commits on the fourth write.
write_load_register_early(m, addr, val) ==
  IF val \div 128 = 1
  THEN set_control_register([m EXCEPT !.shift_register = \h10],
                            BitOr(control_register(m), \hC0))
  ELSE LET full == has_bits(m.shift_register, 2)
           sr == BitOr(m.shift_register \div 2, (val % 2) * 16)
           v == sr % 32
           m1 == [m EXCEPT !.shift_register = \h10]
       IN IF ~full THEN [m EXCEPT !.shift_register = sr]
          ELSE CASE BitOr(\h8000, BitAnd(addr, \h6000)) = \h8000 ->
                      set_control_register(m1, v)
                 [] BitOr(\h8000, BitAnd(addr, \h6000)) = \hA000 ->
                      [m1 EXCEPT !.chr_bank0 = v % 32]
                 [] BitOr(\h8000, BitAnd(addr, \h6000)) = \hC000 ->
                      [m1 EXCEPT !.chr_bank1 = v % 32]
                 [] BitOr(\h8000, BitAnd(addr, \h6000)) = \hE000 ->
                      [m1 EXCEPT !.prg_bank = v % 16]

\* set_chr_bank0, set_chr_bank1 and set_prg_bank (mmc1.rs:77-95) are the
\* three EXCEPT arms.
write_load_register(m, addr, val) ==
  IF val \div 128 = 1
  THEN set_control_register([m EXCEPT !.shift_register = \h10],
                            BitOr(control_register(m), \hC0))
  ELSE LET full == has_bits(m.shift_register, 1)
           sr == BitOr(m.shift_register \div 2, (val % 2) * 16)
           v == sr % 32
           m1 == [m EXCEPT !.shift_register = \h10]
       IN IF ~full THEN [m EXCEPT !.shift_register = sr]
          ELSE CASE BitOr(\h8000, BitAnd(addr, \h6000)) = \h8000 ->
                      set_control_register(m1, v)
                 [] BitOr(\h8000, BitAnd(addr, \h6000)) = \hA000 ->
                      [m1 EXCEPT !.chr_bank0 = v % 32]
                 [] BitOr(\h8000, BitAnd(addr, \h6000)) = \hC000 ->
                      [m1 EXCEPT !.chr_bank1 = v % 32]
                 [] BitOr(\h8000, BitAnd(addr, \h6000)) = \hE000 ->
                      [m1 EXCEPT !.prg_bank = v % 16]

\* An index past the end of the image makes the read panic: the result is -1.
mmc1_cpu_read_u8(m, addr) ==
  LET rom(i) == IF i < m.prg_rom.len THEN VecGet(m.prg_rom, i) ELSE -1
      even == m.prg_bank - (m.prg_bank % 2)
  IN CASE addr \in \h6000 .. \h7FFF -> VecGet(m.prg_ram, addr - \h6000)
       [] addr \in \h8000 .. \hFFFF /\ m.prg_bank_mode \in {0, 1} ->
            rom(addr - \h8000 + even * \h4000)
       [] addr \in \h8000 .. \hBFFF /\ m.prg_bank_mode = 2 ->
            rom(addr - \h8000)
       [] addr \in \h8000 .. \hBFFF /\ m.prg_bank_mode = 3 ->
            rom(addr - \h8000 + m.prg_bank * \h4000)
       [] addr \in \hC000 .. \hFFFF /\ m.prg_bank_mode = 2 ->
            rom(addr - \hC000 + m.prg_bank * \h4000)
       [] addr \in \hC000 .. \hFFFF /\ m.prg_bank_mode = 3 ->
            rom(addr - \hC000 + m.prg_rom.len - \h4000)
       [] OTHER -> 0

\* A write port without the consecutive-write lockout.
mmc1_cpu_write_u8_open(m, addr, val, cycle) ==
  LET m1 == [m EXCEPT !.prev_write_cycle = cycle]
  IN CASE addr \in \h6000 .. \h7FFF ->
            [m1 EXCEPT !.prg_ram = VecSet(@, addr - \h6000, val)]
       [] addr \in \h8000 .. \hFFFF -> write_load_register(m1, addr, val)
       [] OTHER -> m1

mmc1_cpu_write_u8(m, addr, val, cycle) ==
  LET consecutive_write == cycle = m.prev_write_cycle + 1
      m1 == [m EXCEPT !.prev_write_cycle = cycle]
  IN IF consecutive_write THEN m1
     ELSE CASE addr \in \h6000 .. \h7FFF ->
                 [m1 EXCEPT !.prg_ram = VecSet(@, addr - \h6000, val)]
            [] addr \in \h8000 .. \hFFFF -> write_load_register(m1, addr, val)
            [] OTHER -> m1

mmc1_mirroring(m) ==
  CASE m.mirroring = 0 -> "OneScreenLowerBank"
    [] m.mirroring = 1 -> "OneScreenUpperBank"
    [] m.mirroring = 2 -> "Vertical"
    [] m.mirroring = 3 -> "Horizontal"

mmc1_effective_ppu_addr(m, addr) ==
  CASE addr \in \h0000 .. \h1FFF /\ m.chr_bank_mode = 0 ->
         addr + (m.chr_bank0 - (m.chr_bank0 % 2)) * \h1000
    [] addr \in \h0000 .. \h0FFF /\ m.chr_bank_mode = 1 ->
         addr + m.chr_bank0 * \h1000
    [] addr \in \h1000 .. \h1FFF /\ m.chr_bank_mode = 1 ->
         addr - \h1000 + m.chr_bank1 * \h1000
    [] OTHER -> addr

(***************************** mapper/uxrom.rs *****************************)

UxRomMapper_new(prg_rom, chr) ==
  [kind |-> "UXROM", prg_rom |-> prg_rom, prg_bank0 |-> 0, chr |-> chr]

\* An index past the end of the image makes the read panic: the result is -1.
uxrom_cpu_read_u8(m, addr) ==
  LET rom(i) == IF i < m.prg_rom.len THEN VecGet(m.prg_rom, i) ELSE -1
  IN CASE addr \in \h8000 .. \hBFFF -> rom(addr - \h8000 + m.prg_bank0 * \h4000)
       [] addr \in \hC000 .. \hFFFF -> rom(addr + \h10000)
       [] OTHER -> 0

uxrom_cpu_write_u8(m, addr, val) ==
  IF addr \in \h8000 .. \hFFFF THEN [m EXCEPT !.prg_bank0 = val % 8] ELSE m

(***************************** mapper/mmc4.rs ******************************)

Mmc4Mapper_new(prg_rom, chr, prg_ram) ==
  [kind |-> "MMC4", prg_ram |-> prg_ram, prg_rom |-> prg_rom, chr |-> chr,
   chr_bank0_fd |-> 0, chr_bank0_fe |-> 0, chr_bank1_fd |-> 1, chr_bank1_fe |-> 1,
   prg_bank |-> 0, mirroring |-> 0, latch_0 |-> \hFD, latch_1 |-> \hFD]

\* An index past the end of the image makes the read panic: the result is -1.
mmc4_cpu_read_u8(m, addr) ==
  LET rom(i) == IF i < m.prg_rom.len THEN VecGet(m.prg_rom, i) ELSE -1
  IN CASE addr \in \h6000 .. \h7FFF -> VecGet(m.prg_ram, addr - \h6000)
       [] addr \in \h8000 .. \hBFFF -> rom(addr - \h8000 + m.prg_bank * \h4000)
       [] addr \in \hC000 .. \hFFFF -> rom(addr - \hC000 + m.prg_rom.len - \h4000)
       [] OTHER -> 0

\* set_prg_bank .. set_mirroring (mmc4.rs:40-62) are the EXCEPT arms.
mmc4_cpu_write_u8(m, addr, val) ==
  CASE addr \in \h6000 .. \h7FFF -> [m EXCEPT !.prg_ram = VecSet(@, addr - \h6000, val)]
    [] addr \in \hA000 .. \hAFFF -> [m EXCEPT !.prg_bank = val % 16]
    [] addr \in \hB000 .. \hBFFF -> [m EXCEPT !.chr_bank0_fd = val % 32]
    [] addr \in \hC000 .. \hCFFF -> [m EXCEPT !.chr_bank0_fe = val % 32]
    [] addr \in \hD000 .. \hDFFF -> [m EXCEPT !.chr_bank1_fd = val % 32]
    [] addr \in \hE000 .. \hEFFF -> [m EXCEPT !.chr_bank1_fe = val % 32]
    [] addr \in \hF000 .. \hFFFF -> [m EXCEPT !.mirroring = val % 2]
    [] OTHER -> m

\* A PPU read that never moves a latch.
mmc4_ppu_read_u8_stuck(m, addr) ==
  LET chr(i) == IF i < m.chr.len THEN VecGet(m.chr, i) ELSE -2
  IN [m |-> m,
      val |-> CASE addr \in \h0000 .. \h0FFF /\ m.latch_0 = \hFD ->
                     chr(addr + m.chr_bank0_fd * \h1000)
                [] addr \in \h0000 .. \h0FFF /\ m.latch_0 = \hFE ->
                     chr(addr + m.chr_bank0_fe * \h1000)
                [] addr \in \h1000 .. \h1FFF /\ m.latch_1 = \hFD ->
                     chr(addr - \h1000 + m.chr_bank1_fd * \h1000)
                [] addr \in \h1000 .. \h1FFF /\ m.latch_1 = \hFE ->
                     chr(addr - \h1000 + m.chr_bank1_fe * \h1000)
                [] OTHER -> -1]

\* The result is [val, m]: the Option<u8> returned (None is -1; -2 when the
\* index is past the end of chr and the read panics) and the mapper afterwards.
mmc4_ppu_read_u8(m, addr) ==
  LET latched ==
        CASE addr \in \h0FD8 .. \h0FDF -> [m EXCEPT !.latch_0 = \hFD]
          [] addr \in \h0FE8 .. \h0FEF -> [m EXCEPT !.latch_0 = \hFE]
          [] addr \in \h1FD8 .. \h1FDF -> [m EXCEPT !.latch_1 = \hFD]
          [] addr \in \h1FE8 .. \h1FEF -> [m EXCEPT !.latch_1 = \hFE]
          [] OTHER -> m
  IN mmc4_ppu_read_u8_stuck(latched, addr)

(************************ cartridge.rs, mapper.rs ***************************)

\* Cartridge::default(): an NROM mapper over an empty image, valid = false.
Cartridge_default ==
  [header |-> [mirroring |-> "OneScreenLowerBank"],
   mapper |-> NromMapper_new(VecNew(\h4000, 0), VecNew(\h2000, 0)),
   valid |-> FALSE]

\* Cartridge::from_bytes for an image the header parser accepts.
Cartridge_from(header_mirroring, mapper) ==
  [header |-> [mirroring |-> header_mirroring], mapper |-> mapper, valid |-> TRUE]

\* &src[start..end] of a byte vector.
VecSlice(v, start, end) ==
  [len |-> end - start, fill |-> v.fill,
   w |-> [i \in {j - start : j \in {k \in DOMAIN v.w : k >= start /\ k < end}} |->
            v.w[i + start]]]

\* dst[0..src.len].copy_from_slice(src).
VecCopy(dst, src) ==
  IF src.fill = dst.fill
  THEN [dst EXCEPT !.w = src.w @@ @]
  ELSE [dst EXCEPT !.w = [i \in 0 .. (src.len - 1) |-> VecGet(src, i)] @@ @]

(******************************* header.rs *********************************)

\* MapperKind::from(u8) (mapper.rs:42-53); Unknown(val) is "Unknown".
MapperKind_from(val) ==
  CASE val = 0 -> "NROM"
    [] val = 1 -> "MMC1"
    [] val = 2 -> "UXROM"
    [] val = 4 -> "MMC3"
    [] val = 10 -> "MMC4"
    [] OTHER -> "Unknown"

\* A header parser that takes the mapper number from flags6 alone.
read_from_slice_low(slice) ==
  LET at(i) == VecGet(slice, i)
      flags6 == at(6)
      flags7 == at(7)
      prg_start == IF (flags6 \div 4) % 2 = 1 THEN \h210 ELSE \h10
      prg_end == prg_start + at(4) * \h4000
  IN CASE slice.len < 16 -> [err |-> "InvalidData"]
       [] <<at(0), at(1), at(2), at(3)>> # <<\h4E, \h45, \h53, \h1A>> ->
            [err |-> "InvalidData"]
       [] (flags7 \div 4) % 4 = 2 -> [err |-> "Unsupported"]
       [] (flags6 \div 8) % 2 = 1 -> [err |-> "Unsupported"]
       [] OTHER ->
            [err |-> "", prg_size |-> at(4), chr_size |-> at(5),
             flags6 |-> flags6, flags7 |-> flags7,
             mirroring |-> IF flags6 % 2 = 0 THEN "Horizontal" ELSE "Vertical",
             mapper |-> MapperKind_from(flags6 \div 16),
             prg_start |-> prg_start, prg_end |-> prg_end,
             chr_start |-> prg_end, chr_end |-> prg_end + at(5) * \h2000,
             persistence |-> has_bits(flags6, 2)]

\* Header::read_from_slice: the header, or the error in err.
read_from_slice(slice) ==
  LET at(i) == VecGet(slice, i)
      flags6 == at(6)
      flags7 == at(7)
      prg_start == IF (flags6 \div 4) % 2 = 1 THEN \h210 ELSE \h10
      prg_end == prg_start + at(4) * \h4000
  IN CASE slice.len < 16 -> [err |-> "InvalidData"]
       [] <<at(0), at(1), at(2), at(3)>> # <<\h4E, \h45, \h53, \h1A>> ->
            [err |-> "InvalidData"]
       [] (flags7 \div 4) % 4 = 2 -> [err |-> "Unsupported"]
       [] (flags6 \div 8) % 2 = 1 -> [err |-> "Unsupported"]
       [] OTHER ->
            [err |-> "", prg_size |-> at(4), chr_size |-> at(5),
             flags6 |-> flags6, flags7 |-> flags7,
             mirroring |-> IF flags6 % 2 = 0 THEN "Horizontal" ELSE "Vertical",
             mapper |-> MapperKind_from(BitOr(flags6 \div 16, BitAnd(flags7, \hF0))),
             prg_start |-> prg_start, prg_end |-> prg_end,
             chr_start |-> prg_end, chr_end |-> prg_end + at(5) * \h2000,
             persistence |-> has_bits(flags6, 2)]

\* build_mapper(data, header) with the constructors of the five mappers;
\* ram is the content of the rand_vec! a constructor draws.  The result is
\* [err, mapper].
build_mapper(data, header, ram) ==
  LET prg == VecSlice(data, header.prg_start, header.prg_end)
      chr == VecSlice(data, header.chr_start, header.chr_end)
      copy_chr(dst) == IF header.chr_size > 0 THEN VecCopy(dst, chr) ELSE dst
      ok(m) == [err |-> "", mapper |-> m]
  IN CASE header.mapper = "NROM" ->
            ok(NromMapper_new(IF header.prg_size > 0 THEN prg ELSE VecNew(\h4000, 0),
                              copy_chr(VecNew(\h2000, 0))))
       [] header.mapper = "MMC1" ->
            ok(Mmc1Mapper_new(prg, copy_chr(VecNew(\h20000, 0)), VecNew(\h4000, ram)))
       [] header.mapper = "UXROM" -> ok(UxRomMapper_new(prg, copy_chr(VecNew(\h2000, 0))))
       [] header.mapper = "MMC3" ->
            ok(Mmc3Mapper_new(prg, copy_chr(VecNew(\h40000, 0)), VecNew(\h2000, ram)))
       [] header.mapper = "MMC4" -> ok(Mmc4Mapper_new(prg, chr, VecNew(\h2000, ram)))
       [] OTHER -> [err |-> "Unsupported"]

\* Cartridge::from_bytes.  The result is [err, cart]; there is no cart when
\* err is not "".
from_bytes(bytes, ram) ==
  LET built(header, m) ==
        IF m.err # "" THEN [err |-> m.err]
        ELSE [err |-> "", cart |-> Cartridge_from(header.mirroring, m.mapper)]
      parsed(header) ==
        IF header.err # "" THEN [err |-> header.err]
        ELSE built(header, build_mapper(bytes, header, ram))
  IN parsed(read_from_slice(bytes))

cart_mirroring(c) ==
  CASE c.mapper.kind \in {"NROM", "UXROM"} -> c.header.mirroring
    [] c.mapper.kind = "MMC1" -> mmc1_mirroring(c.mapper)
    [] c.mapper.kind = "MMC4" ->
         IF c.mapper.mirroring = 0 THEN "Vertical" ELSE "Horizontal"
    [] OTHER -> c.mapper.mirroring

cart_cpu_read_u8(c, addr) ==
  CASE c.mapper.kind = "NROM" -> nrom_cpu_read_u8(c.mapper, addr)
    [] c.mapper.kind = "MMC1" -> mmc1_cpu_read_u8(c.mapper, addr)
    [] c.mapper.kind = "UXROM" -> uxrom_cpu_read_u8(c.mapper, addr)
    [] c.mapper.kind = "MMC3" -> mmc3_cpu_read_u8(c.mapper, addr)
    [] c.mapper.kind = "MMC4" -> mmc4_cpu_read_u8(c.mapper, addr)

cart_cpu_write_u8(c, addr, val, cycle) ==
  CASE c.mapper.kind = "NROM" -> [c EXCEPT !.mapper = nrom_cpu_write_u8(@, addr, val)]
    [] c.mapper.kind = "MMC1" ->
         [c EXCEPT !.mapper = mmc1_cpu_write_u8(@, addr, val, cycle)]
    [] c.mapper.kind = "UXROM" -> [c EXCEPT !.mapper = uxrom_cpu_write_u8(@, addr, val)]
    [] c.mapper.kind = "MMC3" -> [c EXCEPT !.mapper = mmc3_cpu_write_u8(@, addr, val)]
    [] c.mapper.kind = "MMC4" -> [c EXCEPT !.mapper = mmc4_cpu_write_u8(@, addr, val)]

\* ppu_read_u8 takes &mut self and returns Option<u8>: the result is [val, c],
\* the value (None is -1) and the cartridge afterwards.
cart_ppu_read_u8(c, addr) ==
  LET kept(val) == [val |-> val, c |-> c]
      moved(r) == [val |-> r.val, c |-> [c EXCEPT !.mapper = r.m]]
  IN CASE c.mapper.kind \in {"NROM", "UXROM"} ->
            kept(IF addr \in 0 .. \h1FFF THEN VecGet(c.mapper.chr, addr) ELSE -1)
       [] c.mapper.kind = "MMC1" ->
            kept(IF addr \in 0 .. \h1FFF
                 THEN VecGet(c.mapper.chr, mmc1_effective_ppu_addr(c.mapper, addr))
                 ELSE -1)
       [] c.mapper.kind = "MMC3" ->
            LET chr(e) == IF e = -1 THEN -1 ELSE VecGet(c.mapper.chr, e)
            IN kept(chr(mmc3_effective_ppu_addr(c.mapper, addr)))
       [] c.mapper.kind = "MMC4" -> moved(mmc4_ppu_read_u8(c.mapper, addr))

\* ppu_write_u8 returns whether the cartridge took the write; the result is
\* [taken, c].
cart_ppu_write_u8(c, addr, val) ==
  CASE c.mapper.kind \in {"NROM", "UXROM", "MMC4"} /\ addr \in 0 .. \h1FFF ->
         [taken |-> TRUE, c |-> [c EXCEPT !.mapper.chr = VecSet(@, addr, val)]]
    [] c.mapper.kind = "MMC1" /\ addr \in 0 .. \h1FFF ->
         [taken |-> TRUE,
          c |-> [c EXCEPT !.mapper.chr =
                   VecSet(@, mmc1_effective_ppu_addr(c.mapper, addr), val)]]
    [] OTHER -> [taken |-> FALSE, c |-> c]

cart_irq_triggered(c) ==
  IF c.mapper.kind = "MMC3"
  THEN LET t == mmc3_irq_triggered(c.mapper)
       IN [val |-> t.val, c |-> [c EXCEPT !.mapper = t.m]]
  ELSE [val |-> FALSE, c |-> c]

cart_clock_irq(c) ==
  IF c.mapper.kind = "MMC3" THEN [c EXCEPT !.mapper = mmc3_clock_irq(@)] ELSE c

(******************************** ppu.rs ***********************************)

NAMETABLE_X_BITS == 1024

NAMETABLE_Y_BITS == 2048

TILE_X_BITS == 31

TILE_Y_BITS == 992

PIXEL_Y_BITS == 28672

VBL_PPU_CYCLE == 82182

OPEN_BUS_DECAY == 5360520

Ppu_new ==
  [vram |-> VecNew(\h4000, 0),
   ppu_ctrl |-> 0, ppu_mask |-> 0, ppu_status |-> 0, ppu_addr |-> 0,
   vram_addr |-> 0, ppu_data_buf |-> 0, oam_addr |-> 0,
   primary_oam |-> VecNew(256, 0),
   pixel_x |-> 0, w_toggle |-> FALSE, vbl_cycle_counter |-> 0,
   nmi_triggered |-> FALSE, suppress_next_nmi |-> FALSE,
   cycle |-> 0, odd_frame |-> FALSE, scanline |-> 0,
   sprite_evaluation_idx |-> 0, found_sprites |-> 0,
   open_bus |-> 0, open_bus_decay_timer |-> 0, a12_timer |-> 0]

\* A reset that keeps all of PPUSTATUS.
Ppu_reset_status(p) ==
  [Ppu_new EXCEPT !.oam_addr = p.oam_addr,
                  !.ppu_addr = p.ppu_addr,
                  !.ppu_status = p.ppu_status,
                  !.open_bus = p.open_bus,
                  !.open_bus_decay_timer = p.open_bus_decay_timer]

Ppu_reset(p) ==
  [Ppu_new EXCEPT !.oam_addr = p.oam_addr,
                  !.ppu_addr = p.ppu_addr,
                  !.ppu_status = BitAnd(p.ppu_status, \h80),
                  !.open_bus = p.open_bus,
                  !.open_bus_decay_timer = p.open_bus_decay_timer]

frame_completed(p) == p.scanline = 0 /\ p.cycle = 0

\* A test of the sprite bit where the background bit is meant.
background_rendering_enabled_sprites(p) == has_bits(p.ppu_mask, \h10)

background_rendering_enabled(p) == has_bits(p.ppu_mask, \h08)

rendering_enabled(p) ==
  background_rendering_enabled(p) \/ has_bits(p.ppu_mask, \h10)

write_open_bus(p, val, refresh) ==
  [p EXCEPT !.open_bus = val,
            !.open_bus_decay_timer =
               IF refresh /\ val # 0 THEN OPEN_BUS_DECAY ELSE @]

update_open_bus(p) ==
  IF p.open_bus_decay_timer = 0
  THEN [p EXCEPT !.open_bus = 0]
  ELSE [p EXCEPT !.open_bus_decay_timer = @ - 1]

\* The result is [val, ppu]: the byte read and the PPU afterwards.
\* A read that leaves the NMI raised at VBL and VBL + 1.
read_ppu_status_keep(p, read_only) ==
  LET atVblMinus1 == p.vbl_cycle_counter = VBL_PPU_CYCLE - 1
      status == IF ~read_only /\ atVblMinus1
                THEN BitAnd(p.ppu_status, \h7F) ELSE p.ppu_status
      p1 == IF read_only THEN p
            ELSE [p EXCEPT !.w_toggle = FALSE,
                           !.ppu_status = BitAnd(@, \h7F),
                           !.suppress_next_nmi = IF atVblMinus1 THEN TRUE ELSE @]
  IN [val |-> BitOr(BitAnd(status, \hE0), BitAnd(p.open_bus, \h1F)),
      ppu |-> p1]

\* A read that leaves the write toggle as it is.
read_ppu_status_toggle(p, read_only) ==
  LET atVblMinus1 == p.vbl_cycle_counter = VBL_PPU_CYCLE - 1
      atVbl == p.vbl_cycle_counter \in {VBL_PPU_CYCLE, VBL_PPU_CYCLE + 1}
      status == IF ~read_only /\ atVblMinus1
                THEN BitAnd(p.ppu_status, \h7F) ELSE p.ppu_status
      p1 == IF read_only THEN p
            ELSE [p EXCEPT !.ppu_status = BitAnd(@, \h7F),
                           !.suppress_next_nmi = IF atVblMinus1 THEN TRUE ELSE @,
                           !.nmi_triggered =
                              IF ~atVblMinus1 /\ atVbl THEN FALSE ELSE @]
  IN [val |-> BitOr(BitAnd(status, \hE0), BitAnd(p.open_bus, \h1F)),
      ppu |-> p1]

read_ppu_status(p, read_only) ==
  LET atVblMinus1 == p.vbl_cycle_counter = VBL_PPU_CYCLE - 1
      atVbl == p.vbl_cycle_counter \in {VBL_PPU_CYCLE, VBL_PPU_CYCLE + 1}
      status == IF ~read_only /\ atVblMinus1
                THEN BitAnd(p.ppu_status, \h7F) ELSE p.ppu_status
      p1 == IF read_only THEN p
            ELSE [p EXCEPT !.w_toggle = FALSE,
                           !.ppu_status = BitAnd(@, \h7F),
                           !.suppress_next_nmi = IF atVblMinus1 THEN TRUE ELSE @,
                           !.nmi_triggered =
                              IF ~atVblMinus1 /\ atVbl THEN FALSE ELSE @]
  IN [val |-> BitOr(BitAnd(status, \hE0), BitAnd(p.open_bus, \h1F)),
      ppu |-> p1]

write_ppu_ctrl(p, val) ==
  LET nmi_enable_toggled_on == has_bits(val, \h80) /\ ~has_bits(p.ppu_ctrl, \h80)
      t1 == IF nmi_enable_toggled_on /\ has_bits(p.ppu_status, \h80)
            THEN TRUE ELSE p.nmi_triggered
      t2 == IF ~has_bits(val, \h80)
               /\ p.vbl_cycle_counter \in (VBL_PPU_CYCLE - 1) .. (VBL_PPU_CYCLE + 1)
            THEN FALSE ELSE t1
  IN write_open_bus(
       [p EXCEPT !.ppu_ctrl = val,
                 !.ppu_addr = BitOr(BitAnd(@, \hF3FF), (val % 4) * 1024),
                 !.nmi_triggered = t2],
       val, TRUE)

write_ppu_mask(p, val) == write_open_bus([p EXCEPT !.ppu_mask = val], val, TRUE)

write_ppu_scroll(p, val) ==
  write_open_bus(
    IF ~p.w_toggle
    THEN [p EXCEPT !.pixel_x = val % 8,
                   !.ppu_addr = BitOr(BitAnd(@, \h7FE0), val \div 8),
                   !.w_toggle = TRUE]
    ELSE [p EXCEPT !.ppu_addr = BitOr(BitOr((val % 8) * 4096,
                                            BitAnd(val, \hF8) * 4),
                                      BitAnd(@, \h0C1F)),
                   !.w_toggle = FALSE],
    val, TRUE)

\* Ppu::nmi_triggered(): reads the flag and clears it; the result is [val, ppu].
nmi_triggered(p) ==
  [val |-> p.nmi_triggered, ppu |-> [p EXCEPT !.nmi_triggered = FALSE]]

\* The operators from here on reach the cartridge through Ppu::cart_mut(), so
\* they take and return the machine record.
update_vram_addr(n, new_addr) ==
  LET p == n.ppu
  IN [n EXCEPT !.cart = IF p.a12_timer >= 8 /\ has_bits(new_addr, \h1000)
                        THEN cart_clock_irq(@) ELSE @,
               !.ppu.a12_timer = IF ~has_bits(p.vram_addr, \h1000)
                                 THEN (IF @ = 255 THEN 255 ELSE @ + 1)
                                 ELSE 0,
               !.ppu.vram_addr = new_addr]

increment_vram_addr(n) ==
  update_vram_addr(n, (n.ppu.vram_addr
                       + (IF has_bits(n.ppu.ppu_ctrl, 4) THEN 32 ELSE 1)) % 65536)

write_ppu_addr(n, val) ==
  LET p == n.ppu
      n1 == IF ~p.w_toggle
            THEN [n EXCEPT !.ppu.ppu_addr =
                     BitOr(BitAnd(@, \h00FF), BitAnd(val, \h3F) * 256)]
            ELSE LET a == BitOr(BitAnd(p.ppu_addr, \hFF00), val)
                 IN update_vram_addr([n EXCEPT !.ppu.ppu_addr = a], a)
  IN [n1 EXCEPT !.ppu = write_open_bus([@ EXCEPT !.w_toggle = ~p.w_toggle],
                                       val, TRUE)]

write_oam_data(p, val) ==
  write_open_bus([p EXCEPT !.primary_oam = VecSet(@, p.oam_addr, val),
                           !.oam_addr = (@ + 1) % 256],
                 val, TRUE)

write_oam_addr(p, val) == write_open_bus([p EXCEPT !.oam_addr = val], val, TRUE)

effective_addr(c, addr0) ==
  LET mirrored(mirroring, addr) ==
       CASE addr \in \h2000 .. \h3EFF ->
            \h2000 + (CASE mirroring = "OneScreenLowerBank" -> addr % \h400
                        [] mirroring = "OneScreenUpperBank" -> (addr % \h400) + \h400
                        [] mirroring = "Horizontal" ->
                             IF addr % \h1000 < \h800 THEN addr % \h400
                             ELSE (addr % \h400) + \h400
                        [] mirroring = "Vertical" -> addr % \h800)
       [] addr \in {\h3F10, \h3F14, \h3F18, \h3F1C, \h3F30, \h3F34, \h3F38, \h3F4C} ->
            BitAnd(addr, \h3F0F)
       [] addr \in \h3F20 .. \h3FFF
          /\ addr \notin {\h3F30, \h3F34, \h3F38, \h3F4C} ->
            BitAnd(addr, \h3F1F)
       [] OTHER -> addr
  IN mirrored(cart_mirroring(c), addr0 % \h4000)

\* Ppu::read_mem_u8.  The result is [val, n].
ppu_read_mem_u8(n, addr0) ==
  LET own(addr, r) ==
        [val |-> IF r.val = -1 THEN VecGet(n.ppu.vram, addr) ELSE r.val,
         n |-> [n EXCEPT !.cart = r.c]]
      at(addr) == own(addr, cart_ppu_read_u8(n.cart, addr))
  IN at(effective_addr(n.cart, addr0))

ppu_write_mem_u8(n, addr0, val) ==
  LET own(addr, w) == IF w.taken THEN [n EXCEPT !.cart = w.c]
                      ELSE [n EXCEPT !.ppu.vram = VecSet(@, addr, val)]
      at(addr) == own(addr, cart_ppu_write_u8(n.cart, addr, val))
  IN at(effective_addr(n.cart, addr0))

\* The result is [val, n].
read_ppu_data(n, read_only) ==
  LET p == n.ppu
      prev_val == p.ppu_data_buf
      is_palette == p.vram_addr >= \h3F00
      buffered(r) == [r.n EXCEPT !.ppu.ppu_data_buf = r.val]
      n1(curr) ==
        IF read_only THEN curr.n
        ELSE increment_vram_addr(
               IF is_palette
               THEN buffered(ppu_read_mem_u8(curr.n, BitAnd(p.vram_addr, \h2FFF)))
               ELSE buffered(curr))
      val(curr_val) ==
        IF is_palette
        THEN BitOr(BitAnd(curr_val, \h3F), BitAnd(p.open_bus, \hC0))
        ELSE prev_val
      result(m, v) == [val |-> v, n |-> [m EXCEPT !.ppu = write_open_bus(@, v, FALSE)]]
      read(curr) == result(n1(curr), val(curr.val))
  IN read(ppu_read_mem_u8(n, p.vram_addr))

write_vram(n, val) ==
  LET n1 == increment_vram_addr(ppu_write_mem_u8(n, n.ppu.vram_addr, val))
  IN [n1 EXCEPT !.ppu = write_open_bus(@, val, TRUE)]

set_ppu_status(p, val) ==
  [p EXCEPT !.ppu_status = val,
            !.nmi_triggered =
               IF has_bits(val, \h80) /\ ~has_bits(p.ppu_status, \h80)
                  /\ has_bits(p.ppu_ctrl, \h80)
               THEN TRUE ELSE @]

set_vblank_status(p) ==
  [(IF ~p.suppress_next_nmi
    THEN set_ppu_status(p, BitOr(p.ppu_status, \h80))
    ELSE p) EXCEPT !.suppress_next_nmi = FALSE]

increment_scroll_x(n) ==
  LET v == n.ppu.vram_addr
  IN IF rendering_enabled(n.ppu)
     THEN update_vram_addr(n,
            IF has_bits(v, TILE_X_BITS)
            THEN BitXor(v - BitAnd(v, TILE_X_BITS), NAMETABLE_X_BITS)
            ELSE (v + 1) % 65536)
     ELSE n

increment_scroll_y(n) ==
  LET v == n.ppu.vram_addr
      v0 == v - BitAnd(v, PIXEL_Y_BITS)
      ty == BitAnd(v0, TILE_Y_BITS) \div 32
      v1 == IF ty = 29 THEN BitXor(v0, NAMETABLE_Y_BITS) ELSE v0
      tile_y == IF ty = 29 \/ ty = 31 THEN 0 ELSE ty + 1
  IN IF rendering_enabled(n.ppu)
     THEN update_vram_addr(n,
            IF has_bits(v, PIXEL_Y_BITS)
            THEN BitOr(v1 - BitAnd(v1, TILE_Y_BITS), tile_y * 32)
            ELSE (v + \h1000) % 65536)
     ELSE n

reload_vertical_scroll_bits(n) ==
  LET bits == PIXEL_Y_BITS + NAMETABLE_Y_BITS + TILE_Y_BITS
      v == n.ppu.vram_addr
  IN IF rendering_enabled(n.ppu)
     THEN update_vram_addr(n, BitOr(v - BitAnd(v, bits),
                                    BitAnd(n.ppu.ppu_addr, bits)))
     ELSE n

reload_horizontal_scroll_bits(n) ==
  LET bits == NAMETABLE_X_BITS + TILE_X_BITS
      v == n.ppu.vram_addr
  IN IF rendering_enabled(n.ppu)
     THEN update_vram_addr(n, BitOr(v - BitAnd(v, bits),
                                    BitAnd(n.ppu.ppu_addr, bits)))
     ELSE n

\* Ppu::sprite_evaluation(): one sprite of the primary OAM is tested against
\* the next scanline.  Of the secondary OAM the model keeps the count of the
\* sprites found.
sprite_evaluation(p) ==
  LET y0 == VecGet(p.primary_oam, (p.sprite_evaluation_idx % 64) * 4)
      sprite_y == IF y0 = 255 THEN 255 ELSE y0 + 1
      next_y == p.scanline + 1
      sprite_height == IF has_bits(p.ppu_ctrl, \h20) THEN 16 ELSE 8
      in_range == /\ next_y > 0 /\ next_y < \hF0
                  /\ next_y >= sprite_y /\ next_y < sprite_y + sprite_height
      found(q) ==
        IF p.found_sprites < 8
        THEN [q EXCEPT !.found_sprites = IF in_range THEN @ + 1 ELSE @]
        ELSE IF in_range THEN set_ppu_status(q, BitOr(q.ppu_status, \h20))
        ELSE q
  IN IF p.sprite_evaluation_idx >= 64 THEN p
     ELSE [found(p) EXCEPT !.sprite_evaluation_idx = @ + 1]

\* A line that ends one dot late.
next_dot_wide(p) ==
  LET lineEnd == p.cycle + 1 > 341
      frameEnd == lineEnd /\ p.scanline + 1 >= 262
  IN [p EXCEPT !.sprite_evaluation_idx = IF lineEnd THEN 0 ELSE @,
               !.found_sprites = IF lineEnd THEN 0 ELSE @,
               !.cycle = IF lineEnd THEN 0 ELSE @ + 1,
               !.scanline = IF frameEnd THEN 0
                            ELSE IF lineEnd THEN @ + 1 ELSE @,
               !.odd_frame = IF frameEnd THEN ~@ ELSE @]

\* Ppu::clock(), the end of the tick: the dot counter advances; at 341 the
\* line ends, at scanline 262 the frame ends and odd_frame flips.
next_dot(p) ==
  LET lineEnd == p.cycle + 1 >= 341
      frameEnd == lineEnd /\ p.scanline + 1 >= 262
  IN [p EXCEPT !.sprite_evaluation_idx = IF lineEnd THEN 0 ELSE @,
               !.found_sprites = IF lineEnd THEN 0 ELSE @,
               !.cycle = IF lineEnd THEN 0 ELSE @ + 1,
               !.scanline = IF frameEnd THEN 0
                            ELSE IF lineEnd THEN @ + 1 ELSE @,
               !.odd_frame = IF frameEnd THEN ~@ ELSE @]

\* Ppu::clock(): one dot.  The background and sprite fetches of the dot read
\* pattern and nametable memory into the pixel pipeline; of the work done on a
\* rendering line the model keeps what changes the registers: the scroll
\* increments and reloads (which drive the mapper's A12 input through
\* update_vram_addr), the OAMADDR reset, the sprite evaluation and the status
\* flags other than the sprite 0 hit, which no dot of the model sets.
ppu_clock(n0) ==
  LET sl == n0.ppu.scanline
      atStart == n0.ppu.cycle = 0 /\ sl = 0
      skip == atStart /\ n0.ppu.odd_frame /\ background_rendering_enabled(n0.ppu)
      cyc == IF skip THEN n0.ppu.cycle + 1 ELSE n0.ppu.cycle
      onLine == sl \in 0 .. 239 \/ sl = 261
      begin(n) ==
        [n EXCEPT !.ppu = [update_open_bus(@) EXCEPT
                             !.vbl_cycle_counter = (IF atStart THEN 0 ELSE @ + 1)
                                                   + (IF skip THEN 1 ELSE 0),
                             !.cycle = cyc]]
      \* visible scanlines, dots 1..=64: clear_sprite_overflow; dots 65..=256:
      \* sprite_evaluation
      sprites(n) ==
        IF sl \in 0 .. 239 /\ cyc \in 1 .. 64
        THEN [n EXCEPT !.ppu = set_ppu_status(@, BitAnd(@.ppu_status, \hDF))]
        ELSE IF sl \in 0 .. 239 /\ cyc \in 65 .. 256
        THEN [n EXCEPT !.ppu = sprite_evaluation(@)]
        ELSE n
      scroll_x(n) ==
        IF onLine /\ (cyc \in 1 .. 256 \/ cyc \in 321 .. 337) /\ cyc % 8 = 0
        THEN increment_scroll_x(n) ELSE n
      scroll_y(n) == IF onLine /\ cyc = 256 THEN increment_scroll_y(n) ELSE n
      reload_x(n) ==
        IF onLine /\ cyc = 257 THEN reload_horizontal_scroll_bits(n) ELSE n
      oam_reset(n) ==
        IF onLine /\ cyc \in 256 .. 320 THEN [n EXCEPT !.ppu.oam_addr = 0] ELSE n
      vblank(n) ==
        IF sl = 241 /\ cyc = 1 THEN [n EXCEPT !.ppu = set_vblank_status(@)] ELSE n
      \* clear_vblank_status, clear_sprite_zero_hit
      clear_flags(q) == set_ppu_status(q, BitAnd(q.ppu_status, \hBF))
      prerender(n) ==
        CASE sl = 261 /\ cyc = 1 ->
               [n EXCEPT !.ppu =
                  clear_flags(set_ppu_status(@, BitAnd(@.ppu_status, \h7F)))]
          [] sl = 261 /\ cyc \in 280 .. 304 -> reload_vertical_scroll_bits(n)
          [] OTHER -> n
      advance(n) == [n EXCEPT !.ppu = next_dot(@)]
  IN advance(prerender(vblank(oam_reset(reload_x(scroll_y(scroll_x(
       sprites(begin(n0)))))))))

(******************************** cpu.rs ***********************************)

STACK_START_ADDR == 256

\* status flag bits
C == 1

Z == 2

I == 4

D == 8

B == 16

U == 32

O == 64

N == 128

\* Cpu::new(); ram stands for rand_vec![0x0800].  Option<u8> nmi_pending is
\* -1 for None, Option<OpKind> op_kind is "None" for None.
Cpu_new(ram) ==
  [a |-> 0, x |-> 0, y |-> 0, pc |-> 0, s |-> 0, p |-> \h34,
   branch_taken |-> FALSE, page_crossed |-> FALSE,
   internal_ram |-> ram,
   pending_oamdma |-> [addr |-> 0, reading |-> FALSE, byte |-> 0,
                       cycle |-> 0, idx |-> \hFF],
   nmi_pending |-> -1,
   op_kind |-> "None", addressing_mode |-> "Implied", access_mode |-> "Read",
   temp_addr |-> 0, temp_value |-> 0,
   cycles |-> 0, prev_op_cycles |-> 0, current_op_cycle |-> 0,
   op_start_addr |-> 0,
   breakpoints |-> {}, breakpoint_reached |-> FALSE,
   input_p1 |-> 0, input_p2 |-> 0, controller_p1 |-> 0, controller_p2 |-> 0]

Cpu_reset(c) ==
  [Cpu_new(c.internal_ram) EXCEPT !.a = c.a, !.x = c.x, !.y = c.y,
                                  !.p = BitOr(c.p, \h04),
                                  !.s = (c.s + 256 - 3) % 256,
                                  !.breakpoints = c.breakpoints]

\* input.rs: the Button enum, as the u8 of each variant.
Button(name) ==
  CASE name = "A" -> \h80
    [] name = "B" -> \h40
    [] name = "Select" -> \h20
    [] name = "Start" -> \h10
    [] name = "Up" -> \h08
    [] name = "Down" -> \h04
    [] name = "Left" -> \h02
    [] name = "Right" -> \h01

\* A button call that only ever presses.
set_button_state_player1_press(c, button, state) ==
  [c EXCEPT !.input_p1 = BitOr(@, button)]

set_button_state_player1(c, button, state) ==
  [c EXCEPT !.input_p1 = IF state THEN BitOr(@, button)
                         ELSE BitAnd(@, 255 - button)]

instruction_ongoing(c) == c.op_kind # "None"

is_breakpoint(c, addr) == addr \in c.breakpoints

toggle_breakpoint(c, addr) ==
  [c EXCEPT !.breakpoints = IF is_breakpoint(c, addr) THEN @ \ {addr}
                            ELSE @ \cup {addr}]

effective_cpu_addr(addr) ==
  CASE addr \in \h0800 .. \h1FFF -> addr % \h0800
    [] addr \in \h2008 .. \h3FFF -> \h2000 + (addr % 8)
    [] OTHER -> addr

write_oamdma(c, val) ==
  [c EXCEPT !.pending_oamdma = [addr |-> val * 256, reading |-> TRUE,
                                byte |-> 0, idx |-> 0, cycle |-> c.cycles % 2]]

\* CpuContext::read_mem_u8.  The result is [val, n]: the byte read and the
\* machine afterwards (reads of $2002, $2004, $2007, $4016 and $4017 change it).
read_mem_u8(n, addr0, read_only) ==
  LET addr == effective_cpu_addr(addr0)
  IN CASE addr \in \h0000 .. \h07FF ->
            [val |-> VecGet(n.cpu.internal_ram, addr), n |-> n]
       [] addr \in {\h2000, \h2001, \h2003, \h2005, \h2006}
          \/ addr \in \h4000 .. \h4007 ->
            [val |-> n.ppu.open_bus, n |-> n]
       [] addr = \h2002 ->
            LET r == read_ppu_status(n.ppu, read_only)
            IN [val |-> r.val, n |-> [n EXCEPT !.ppu = r.ppu]]
       [] addr = \h2004 ->
            LET val == BitAnd(VecGet(n.ppu.primary_oam, n.ppu.oam_addr), \hE3)
            IN [val |-> val, n |-> [n EXCEPT !.ppu = write_open_bus(@, val, FALSE)]]
       [] addr = \h2007 -> read_ppu_data(n, read_only)
       [] addr = \h4015 -> [val |-> 0, n |-> n]
       [] addr = \h4016 ->
            [val |-> n.cpu.controller_p1 \div 128,
             n |-> IF read_only THEN n
                   ELSE [n EXCEPT !.cpu.controller_p1 = (@ * 2) % 256]]
       [] addr = \h4017 ->
            [val |-> n.cpu.controller_p2 \div 128,
             n |-> IF read_only THEN n
                   ELSE [n EXCEPT !.cpu.controller_p2 = (@ * 2) % 256]]
       [] OTHER -> [val |-> cart_cpu_read_u8(n.cart, addr), n |-> n]

write_mem_u8(n, addr0, val) ==
  LET addr == effective_cpu_addr(addr0)
  IN CASE addr \in \h0000 .. \h07FF ->
            [n EXCEPT !.cpu.internal_ram = VecSet(@, addr, val)]
       [] addr = \h2000 -> [n EXCEPT !.ppu = write_ppu_ctrl(@, val)]
       [] addr = \h2001 -> [n EXCEPT !.ppu = write_ppu_mask(@, val)]
       [] addr = \h2002 -> [n EXCEPT !.ppu = write_open_bus(@, val, TRUE)]
       [] addr = \h2003 -> [n EXCEPT !.ppu = write_oam_addr(@, val)]
       [] addr = \h2004 -> [n EXCEPT !.ppu = write_oam_data(@, val)]
       [] addr = \h2005 -> [n EXCEPT !.ppu = write_ppu_scroll(@, val)]
       [] addr = \h2006 -> write_ppu_addr(n, val)
       [] addr = \h2007 -> write_vram(n, val)
       [] addr \in \h4000 .. \h4013 -> n
       [] addr = \h4014 -> [n EXCEPT !.cpu = write_oamdma(@, val)]
       [] addr = \h4015 -> n
       [] addr = \h4016 -> [n EXCEPT !.cpu.controller_p1 = n.cpu.input_p1]
       [] addr = \h4017 -> [n EXCEPT !.cpu.controller_p2 = n.cpu.input_p2]
       [] OTHER -> [n EXCEPT !.cart = cart_cpu_write_u8(@, addr, val, n.cpu.cycles)]

\* A method call on the CpuContext (cpu.rs:206-209) a CPU cycle runs in: the
\* method named, applied to args.  clock() and the methods its handlers call
\* most are reached through it.
RECURSIVE CpuContext(_, _)

\* self.read_mem_u8(addr), self.write_mem_u8(addr, val) and
\* self.do_read_operation() inside a method of the CpuContext of Cpu::clock
\* (read_only: false).
ctx_read_mem_u8(n, addr) == CpuContext("read_mem_u8", <<n, addr, FALSE>>)

ctx_write_mem_u8(n, addr, val) == CpuContext("write_mem_u8", <<n, addr, val>>)

ctx_do_read_operation(n) == CpuContext("do_read_operation", <<n>>)

\* A DMA that waits one cycle less before its first read.
clock_oamdma_hasty(n) ==
  LET d == n.cpu.pending_oamdma
      d1 == [d EXCEPT !.cycle = @ + 1]
      read(r) ==
        [r.n EXCEPT !.cpu.pending_oamdma =
           [d1 EXCEPT !.byte = r.val, !.reading = FALSE]]
      write(w) ==
        [w EXCEPT !.cpu.pending_oamdma =
           [d1 EXCEPT !.addr = (d.addr + 1) % 65536, !.idx = @ + 1,
                      !.reading = (d.addr + 1) % 256 # 0]]
  IN IF d.idx <= \hFF
     THEN [busy |-> TRUE,
           n |-> IF d1.cycle > 1
                 THEN IF d.reading
                      THEN read(ctx_read_mem_u8(n, d.addr))
                      ELSE write(ctx_write_mem_u8(n, \h2004, d.byte))
                 ELSE [n EXCEPT !.cpu.pending_oamdma = d1]]
     ELSE [busy |-> FALSE, n |-> n]

\* The result is [busy, n]: whether the CPU is suspended this cycle.
clock_oamdma(n) ==
  LET d == n.cpu.pending_oamdma
      d1 == [d EXCEPT !.cycle = @ + 1]
      read(r) ==
        [r.n EXCEPT !.cpu.pending_oamdma =
           [d1 EXCEPT !.byte = r.val, !.reading = FALSE]]
      write(w) ==
        [w EXCEPT !.cpu.pending_oamdma =
           [d1 EXCEPT !.addr = (d.addr + 1) % 65536, !.idx = @ + 1,
                      !.reading = (d.addr + 1) % 256 # 0]]
  IN IF d.idx <= \hFF
     THEN [busy |-> TRUE,
           n |-> IF d1.cycle > 2
                 THEN IF d.reading
                      THEN read(ctx_read_mem_u8(n, d.addr))
                      ELSE write(ctx_write_mem_u8(n, \h2004, d.byte))
                 ELSE [n EXCEPT !.cpu.pending_oamdma = d1]]
     ELSE [busy |-> FALSE, n |-> n]

set_status_flag(pv, bit, state) ==
  IF state THEN BitOr(pv, bit) ELSE pv - BitAnd(pv, bit)

\* set_status_flag(Z, v == 0); set_status_flag(N, v.has_bits(0x80))
set_zn(pv, v) ==
  set_status_flag(set_status_flag(pv, Z, v % 256 = 0), N, has_bits(v, \h80))

read_next_pc_u8(n) == ctx_read_mem_u8(n, n.cpu.pc)

increment_pc(n) == [n EXCEPT !.cpu.pc = (@ + 1) % 65536]

read_addr_low(n) ==
  LET set(r) == [r.n EXCEPT !.cpu.temp_addr = r.val] IN set(read_next_pc_u8(n))

read_addr_high(n) ==
  LET set(r) == [r.n EXCEPT !.cpu.temp_addr = BitOr(@, r.val * 256)]
  IN set(read_next_pc_u8(n))

read_from_effective_addr_low(n) ==
  LET set(r) == [r.n EXCEPT !.cpu.temp_value = r.val]
  IN set(ctx_read_mem_u8(n, n.cpu.temp_addr))

\* read_temp_value_high, then temp_addr = temp_value
read_from_effective_addr_high(n) ==
  LET c == n.cpu
      addr == CASE c.addressing_mode \in {"IndirectX", "IndirectY"} ->
                     (c.temp_addr + 1) % 256
                [] c.addressing_mode = "Indirect" /\ c.temp_addr % 256 = \hFF ->
                     c.temp_addr - \hFF
                [] OTHER -> (c.temp_addr + 1) % 65536
      set(m, tv) == [m EXCEPT !.cpu.temp_value = tv, !.cpu.temp_addr = tv]
      join(r) == set(r.n, BitOr(r.n.cpu.temp_value, r.val * 256))
  IN join(ctx_read_mem_u8(n, addr))

write_to_effective_addr(n) ==
  ctx_write_mem_u8(n, n.cpu.temp_addr, low_u8(n.cpu.temp_value))

push_stack_u8(n, val) ==
  [ctx_write_mem_u8(n, STACK_START_ADDR + n.cpu.s, val)
     EXCEPT !.cpu.s = (@ + 255) % 256]

read_stack_u8(n) == ctx_read_mem_u8(n, STACK_START_ADDR + n.cpu.s)

increment_stack_pointer(n) == [n EXCEPT !.cpu.s = (@ + 1) % 256]

complete_instruction(n) ==
  LET c == n.cpu
      c1 == [c EXCEPT !.op_kind = "None", !.branch_taken = FALSE,
                      !.page_crossed = FALSE,
                      !.prev_op_cycles = c.current_op_cycle,
                      !.current_op_cycle = 0]
      t == cart_irq_triggered(n.cart)
  IN IF c.nmi_pending # -1
     THEN [n EXCEPT !.cpu = [c1 EXCEPT !.nmi_pending = -1, !.op_kind = "Nmi",
                                       !.addressing_mode = "Implied"]]
     ELSE [n EXCEPT !.cart = t.c,
                    !.cpu = IF t.val /\ ~has_bits(c.p, I)
                            THEN [c1 EXCEPT !.op_kind = "Irq",
                                            !.addressing_mode = "Implied"]
                            ELSE c1]

\* do_read_operation and the operations it dispatches to (lda .. asr).  DOP is
\* dispatched to nop(), which is complete_instruction().
do_read_operation(n) ==
  LET c == n.cpu
      k == c.op_kind
      v == low_u8(c.temp_value)
      carry == IF has_bits(c.p, C) THEN 1 ELSE 0
      load(f, r) == [n EXCEPT !.cpu = [c EXCEPT ![f] = r, !.p = set_zn(@, r)]]
      compare(first, second) ==
        [n EXCEPT !.cpu.p =
           set_zn(set_status_flag(@, C, first >= second),
                  (first + 256 - second) % 256)]
      add(m) ==
        LET sum == (c.a + m + carry) % 256
            overflow == has_bits(BitAnd(255 - BitXor(c.a, m), BitXor(c.a, sum)), \h80)
        IN [n EXCEPT !.cpu =
              [c EXCEPT !.a = sum,
                        !.p = set_zn(set_status_flag(
                                       set_status_flag(@, O, overflow),
                                       C, c.a + m + carry > 255), sum)]]
  IN CASE k = "Dop" -> complete_instruction(n)
       [] k = "Ldx" -> load("x", v)
       [] k = "Ldy" -> load("y", v)
       [] k = "Lda" -> load("a", v)
       [] k = "Cpx" -> compare(c.x, v)
       [] k = "Cpy" -> compare(c.y, v)
       [] k = "Cmp" -> compare(c.a, v)
       [] k = "Eor" -> load("a", BitXor(c.a, v))
       [] k = "And" -> load("a", BitAnd(c.a, v))
       [] k = "Adc" -> add(v)
       [] k = "Ora" -> load("a", BitOr(c.a, v))
       [] k = "Bit" ->
            [n EXCEPT !.cpu.p =
               set_status_flag(
                 set_status_flag(set_status_flag(@, Z, BitAnd(v, c.a) = 0),
                                 O, has_bits(v, \h40)),
                 N, has_bits(v, \h80))]
       [] k = "Sbc" -> add(255 - v)
       [] k = "Aac" ->
            LET r == BitAnd(c.a, v)
            IN [n EXCEPT !.cpu = [c EXCEPT !.a = r,
                  !.p = set_status_flag(set_zn(@, r), C, has_bits(r, \h80))]]
       [] k = "Asr" ->
            LET r == BitAnd(c.a, v)
            IN [n EXCEPT !.cpu = [c EXCEPT !.a = r \div 2,
                  !.p = set_zn(set_status_flag(@, C, r % 2 = 1), r \div 2)]]

do_write_operation(n) ==
  LET c == n.cpu
  IN CASE c.op_kind = "Sta" -> ctx_write_mem_u8(n, c.temp_addr, c.a)
       [] c.op_kind = "Stx" -> ctx_write_mem_u8(n, c.temp_addr, c.x)
       [] c.op_kind = "Sty" -> ctx_write_mem_u8(n, c.temp_addr, c.y)

\* do_modify_operation and inc, dec, lsr, asl, ror, rol: on the accumulator in
\* Accumulator mode, else on temp_value.
do_modify_operation(n) ==
  LET c == n.cpu
      k == c.op_kind
      acc == c.addressing_mode = "Accumulator"
      carry == IF has_bits(c.p, C) THEN 1 ELSE 0
      tv == c.temp_value
      src == IF acc THEN c.a ELSE tv
      \* res: the new accumulator or temp_value; cy: the new carry
      put(res, cy, neg) ==
        LET p1 == set_status_flag(c.p, C, cy = 1)
            p2 == set_status_flag(set_status_flag(p1, Z, res % 256 = 0), N, neg)
        IN IF acc THEN [n EXCEPT !.cpu = [c EXCEPT !.a = res % 256, !.p = p2]]
           ELSE [n EXCEPT !.cpu = [c EXCEPT !.temp_value = res, !.p = p2]]
  IN CASE k = "Inc" -> LET r == (low_u8(tv) + 1) % 256
                       IN [n EXCEPT !.cpu = [c EXCEPT !.temp_value = r,
                                                      !.p = set_zn(@, r)]]
       [] k = "Dec" -> LET r == (low_u8(tv) + 255) % 256
                       IN [n EXCEPT !.cpu = [c EXCEPT !.temp_value = r,
                                                      !.p = set_zn(@, r)]]
       [] k = "Lsr" -> put(src \div 2, low_u8(src) % 2, FALSE)
       [] k = "Asl" -> LET r == IF acc THEN (src * 2) % 256 ELSE (src * 2) % 65536
                       IN put(r, IF has_bits(src, \h80) THEN 1 ELSE 0,
                              has_bits(r, \h80))
       [] k = "Ror" -> LET r == (low_u8(src) \div 2) + carry * 128
                       IN put(r, src % 2, has_bits(r, \h80))
       [] k = "Rol" -> LET r == ((low_u8(src) * 2) % 256) + carry
                       IN put(r, IF has_bits(src, \h80) THEN 1 ELSE 0,
                              has_bits(r, \h80))

nmi(n) ==
  LET c == n.cpu
      cyc == c.current_op_cycle
  IN CASE cyc = 2 -> push_stack_u8(n, high_u8(c.pc))
       [] cyc = 3 -> push_stack_u8(n, low_u8(c.pc))
       [] cyc = 4 ->
            LET pv == set_status_flag(set_status_flag(
                        set_status_flag(c.p, I, TRUE), U, TRUE), B, FALSE)
            IN push_stack_u8([n EXCEPT !.cpu.p = pv], pv)
       [] cyc = 5 -> LET r == ctx_read_mem_u8(n, \hFFFA)
                     IN [r.n EXCEPT !.cpu.temp_value = r.val]
       [] cyc = 6 -> LET r == ctx_read_mem_u8(n, \hFFFB)
                     IN [r.n EXCEPT !.cpu.temp_value = BitOr(@, r.val * 256)]
       [] cyc = 7 -> complete_instruction([n EXCEPT !.cpu.pc = c.temp_value])
       [] OTHER -> n

irq(n) ==
  LET c == n.cpu
      cyc == c.current_op_cycle
  IN CASE cyc = 2 -> push_stack_u8(n, high_u8(c.pc))
       [] cyc = 3 -> push_stack_u8(n, low_u8(c.pc))
       [] cyc = 4 ->
            LET pv == set_status_flag(set_status_flag(
                        set_status_flag(c.p, I, TRUE), B, FALSE), U, TRUE)
            IN push_stack_u8([n EXCEPT !.cpu.p = pv], pv)
       [] cyc = 5 -> LET r == ctx_read_mem_u8(n, \hFFFE)
                     IN [r.n EXCEPT !.cpu.temp_value = r.val]
       [] cyc = 6 -> LET r == ctx_read_mem_u8(n, \hFFFF)
                     IN [r.n EXCEPT !.cpu.temp_value = BitOr(@, r.val * 256)]
       [] cyc = 7 -> complete_instruction([n EXCEPT !.cpu.pc = c.temp_value])
       [] OTHER -> n

brk(n) ==
  LET c == n.cpu
      cyc == c.current_op_cycle
  IN CASE cyc = 2 -> increment_pc(read_next_pc_u8(n).n)
       [] cyc = 3 -> push_stack_u8(n, high_u8(c.pc))
       [] cyc = 4 -> push_stack_u8(n, low_u8(c.pc))
       [] cyc = 5 ->
            LET pv == set_status_flag(set_status_flag(c.p, B, TRUE), I, TRUE)
            IN push_stack_u8([n EXCEPT !.cpu.p = pv], pv)
       [] cyc = 6 -> LET r == ctx_read_mem_u8(n, \hFFFE)
                     IN [r.n EXCEPT !.cpu.pc = r.val]
       [] cyc = 7 -> LET r == ctx_read_mem_u8(n, \hFFFF)
                     IN complete_instruction(
                          [r.n EXCEPT !.cpu.pc = BitOr(@, r.val * 256)])
       [] OTHER -> n

\* A push that completes a cycle early.
push_op_early(n, val) ==
  LET cyc == n.cpu.current_op_cycle
  IN CASE cyc = 2 -> complete_instruction(push_stack_u8(n, val))
       [] OTHER -> n

\* php, pha: push at cycle 3
push_op(n, val) ==
  LET cyc == n.cpu.current_op_cycle
  IN CASE cyc = 2 -> read_next_pc_u8(n).n
       [] cyc = 3 -> complete_instruction(push_stack_u8(n, val))
       [] OTHER -> n

plp(n) ==
  LET cyc == n.cpu.current_op_cycle
  IN CASE cyc = 2 -> read_next_pc_u8(n).n
       [] cyc = 3 -> increment_stack_pointer(n)
       [] cyc = 4 -> LET r == read_stack_u8(n)
                     IN complete_instruction([r.n EXCEPT !.cpu.p = BitOr(r.val, U)])
       [] OTHER -> n

pla(n) ==
  LET cyc == n.cpu.current_op_cycle
  IN CASE cyc = 2 -> read_next_pc_u8(n).n
       [] cyc = 3 -> increment_stack_pointer(n)
       [] cyc = 4 -> LET r == read_stack_u8(n)
                     IN complete_instruction(
                          [r.n EXCEPT !.cpu.a = r.val, !.cpu.p = set_zn(@, r.val)])
       [] OTHER -> n

rti(n) ==
  LET cyc == n.cpu.current_op_cycle
  IN CASE cyc = 2 -> read_next_pc_u8(n).n
       [] cyc = 3 -> increment_stack_pointer(n)
       [] cyc = 4 -> LET r == read_stack_u8(n)
                     IN increment_stack_pointer(
                          [r.n EXCEPT !.cpu.p = BitAnd(r.val, 255 - B - U)])
       [] cyc = 5 -> LET r == read_stack_u8(n)
                     IN increment_stack_pointer([r.n EXCEPT !.cpu.pc = r.val])
       [] cyc = 6 -> LET r == read_stack_u8(n)
                     IN complete_instruction(
                          [r.n EXCEPT !.cpu.pc = BitOr(@, r.val * 256)])
       [] OTHER -> n

rts(n) ==
  LET cyc == n.cpu.current_op_cycle
  IN CASE cyc = 2 -> read_next_pc_u8(n).n
       [] cyc = 3 -> increment_stack_pointer(n)
       [] cyc = 4 -> LET r == read_stack_u8(n)
                     IN increment_stack_pointer([r.n EXCEPT !.cpu.pc = r.val])
       [] cyc = 5 -> LET r == read_stack_u8(n)
                     IN [r.n EXCEPT !.cpu.pc = BitOr(@, r.val * 256)]
       [] cyc = 6 -> complete_instruction(increment_pc(n))
       [] OTHER -> n

implied(n) ==
  LET c == n.cpu
      k == c.op_kind
      flag(bit, st) ==
        complete_instruction([n EXCEPT !.cpu.p = set_status_flag(@, bit, st)])
      reg(f, r) ==
        complete_instruction([n EXCEPT !.cpu = [c EXCEPT ![f] = r, !.p = set_zn(@, r)]])
  IN CASE k = "Sei" -> flag(I, TRUE)
       [] k = "Sec" -> flag(C, TRUE)
       [] k = "Cli" -> flag(I, FALSE)
       [] k = "Clc" -> flag(C, FALSE)
       [] k = "Sed" -> flag(D, TRUE)
       [] k = "Cld" -> flag(D, FALSE)
       [] k = "Clv" -> flag(O, FALSE)
       [] k = "Txs" -> complete_instruction([n EXCEPT !.cpu.s = c.x])
       [] k = "Tsx" -> reg("x", c.s)
       [] k = "Txa" -> reg("a", c.x)
       [] k = "Tax" -> reg("x", c.a)
       [] k = "Tay" -> reg("y", c.a)
       [] k = "Tya" -> reg("a", c.y)
       [] k = "Dex" -> reg("x", (c.x + 255) % 256)
       [] k = "Dey" -> reg("y", (c.y + 255) % 256)
       [] k = "Inx" -> reg("x", (c.x + 1) % 256)
       [] k = "Iny" -> reg("y", (c.y + 1) % 256)
       [] k = "Rti" -> rti(n)
       [] k = "Rts" -> rts(n)
       [] k = "Pla" -> pla(n)
       [] k = "Plp" -> plp(n)
       [] k = "Pha" -> push_op(n, c.a)
       [] k = "Php" -> push_op(n, BitOr(c.p, B + U))
       [] k = "Brk" -> brk(n)
       [] k = "Nmi" -> nmi(n)
       [] k = "Irq" -> irq(n)
       [] k = "Nop" -> complete_instruction(n)
       [] OTHER -> n

\* The access at the effective address, as each addressing mode's handler
\* writes it out: match self.access_mode { Read => read, operate, complete;
\* ReadModifyWrite => read; Write => operate, complete }.
operand_access(n) ==
  CASE n.cpu.access_mode = "Read" ->
         complete_instruction(ctx_do_read_operation(read_from_effective_addr_low(n)))
    [] n.cpu.access_mode = "ReadModifyWrite" -> read_from_effective_addr_low(n)
    [] n.cpu.access_mode = "Write" -> complete_instruction(do_write_operation(n))

\* The two closing cycles of a read-modify-write instruction at op cycle
\* first and first + 1: write the value back and operate on it, then write
\* the new value and complete.
\* Closing cycles that operate on the value without writing it back first.
rmw_tail_single(n, first) ==
  LET cyc == n.cpu.current_op_cycle
      rmw == n.cpu.access_mode = "ReadModifyWrite"
  IN CASE rmw /\ cyc = first -> do_modify_operation(n)
       [] rmw /\ cyc = first + 1 -> complete_instruction(write_to_effective_addr(n))
       [] OTHER -> n

rmw_tail(n, first) ==
  LET cyc == n.cpu.current_op_cycle
      rmw == n.cpu.access_mode = "ReadModifyWrite"
  IN CASE rmw /\ cyc = first -> do_modify_operation(write_to_effective_addr(n))
       [] rmw /\ cyc = first + 1 -> complete_instruction(write_to_effective_addr(n))
       [] OTHER -> n

immediate(n) ==
  LET r == read_next_pc_u8(n)
  IN complete_instruction(
       ctx_do_read_operation(increment_pc([r.n EXCEPT !.cpu.temp_value = r.val])))

accumulator(n) == complete_instruction(do_modify_operation(n))

indirect_y(n) ==
  LET c == n.cpu
      cyc == c.current_op_cycle
  IN CASE cyc = 2 -> increment_pc(read_addr_low(n))
       [] cyc = 3 -> read_from_effective_addr_low(n)
       [] cyc = 4 ->
            LET n1 == read_from_effective_addr_high(n)
                prev_addr == n1.cpu.temp_addr
                addr == (prev_addr + c.y) % 65536
            IN [n1 EXCEPT !.cpu.temp_addr = addr,
                          !.cpu.page_crossed =
                             IF high_u8(addr) # high_u8(prev_addr) THEN TRUE ELSE @]
       [] cyc = 5 ->
            LET n1 == read_from_effective_addr_low(n)
            IN IF ~c.page_crossed /\ c.access_mode = "Read"
               THEN complete_instruction(ctx_do_read_operation(n1))
               ELSE n1
       [] cyc = 6 ->
            IF c.page_crossed /\ c.access_mode = "Read"
            THEN complete_instruction(
                   ctx_do_read_operation(read_from_effective_addr_low(n)))
            ELSE IF c.access_mode = "Write"
            THEN complete_instruction(do_write_operation(n))
            ELSE IF c.access_mode = "ReadModifyWrite"
            THEN read_from_effective_addr_low(n)
            ELSE n
       [] OTHER -> rmw_tail(n, 7)

indirect_x(n) ==
  LET c == n.cpu
      cyc == c.current_op_cycle
  IN CASE cyc = 2 -> increment_pc(read_addr_low(n))
       [] cyc = 3 ->
            [read_from_effective_addr_low(n)
               EXCEPT !.cpu.temp_addr = ((@ + c.x) % 65536) % 256]
       [] cyc = 4 -> read_from_effective_addr_low(n)
       [] cyc = 5 -> read_from_effective_addr_high(n)
       [] cyc = 6 -> operand_access(n)
       [] OTHER -> rmw_tail(n, 7)

indirect(n) ==
  LET c == n.cpu
      cyc == c.current_op_cycle
  IN CASE cyc = 2 -> increment_pc(read_addr_low(n))
       [] cyc = 3 -> increment_pc(read_addr_high(n))
       [] cyc = 4 -> read_from_effective_addr_low(n)
       [] cyc = 5 ->
            LET n1 == read_from_effective_addr_high(n)
            IN IF c.op_kind = "Jmp"
               THEN complete_instruction([n1 EXCEPT !.cpu.pc = n1.cpu.temp_addr])
               ELSE n1
       [] OTHER -> n

zero_page_indexed(n) ==
  LET c == n.cpu
      cyc == c.current_op_cycle
      idx == IF c.addressing_mode = "ZeroPageX" THEN c.x ELSE c.y
  IN CASE cyc = 2 -> increment_pc(read_addr_low(n))
       [] cyc = 3 ->
            [read_from_effective_addr_low(n)
               EXCEPT !.cpu.temp_addr = (low_u8(@) + idx) % 256]
       [] cyc = 4 -> operand_access(n)
       [] OTHER -> rmw_tail(n, 5)

zero_page(n) ==
  LET cyc == n.cpu.current_op_cycle
  IN CASE cyc = 2 -> increment_pc(read_addr_low(n))
       [] cyc = 3 -> operand_access(n)
       [] OTHER -> rmw_tail(n, 4)

absolute_indexed(n) ==
  LET c == n.cpu
      cyc == c.current_op_cycle
      idx == IF c.addressing_mode = "AbsoluteX" THEN c.x ELSE c.y
  IN CASE cyc = 2 -> increment_pc(read_addr_low(n))
       [] cyc = 3 ->
            LET n1 == increment_pc(read_addr_high(n))
                prev_addr == n1.cpu.temp_addr
                addr == (prev_addr + idx) % 65536
            IN [n1 EXCEPT !.cpu.temp_addr = addr,
                          !.cpu.page_crossed =
                             IF high_u8(prev_addr) # high_u8(addr) THEN TRUE ELSE @]
       [] cyc = 4 ->
            LET n1 == read_from_effective_addr_low(n)
            IN IF ~c.page_crossed /\ c.access_mode = "Read"
               THEN complete_instruction(ctx_do_read_operation(n1))
               ELSE n1
       [] cyc = 5 -> operand_access(n)
       [] OTHER -> rmw_tail(n, 6)

jsr(n) ==
  LET c == n.cpu
      cyc == c.current_op_cycle
  IN CASE cyc = 4 -> push_stack_u8(n, high_u8(c.pc))
       [] cyc = 5 -> push_stack_u8(n, low_u8(c.pc))
       [] cyc = 6 ->
            LET n1 == read_addr_high(n)
            IN complete_instruction([n1 EXCEPT !.cpu.pc = n1.cpu.temp_addr])
       [] OTHER -> n

absolute(n) ==
  LET c == n.cpu
      cyc == c.current_op_cycle
  IN IF cyc >= 3 /\ c.op_kind = "Jsr" THEN jsr(n)
     ELSE CASE cyc = 2 -> increment_pc(read_addr_low(n))
            [] cyc = 3 ->
                 LET n1 == increment_pc(read_addr_high(n))
                 IN IF c.op_kind = "Jmp"
                    THEN complete_instruction(
                           [n1 EXCEPT !.cpu.pc = n1.cpu.temp_addr])
                    ELSE n1
            [] cyc = 4 -> operand_access(n)
            [] OTHER -> rmw_tail(n, 5)

\* A taken branch that never spends a cycle on the page crossing.
branch_flat(n, taken) ==
  LET c == n.cpu
      cyc == c.current_op_cycle
  IN CASE cyc = 2 ->
            IF taken THEN [n EXCEPT !.cpu.branch_taken = TRUE]
            ELSE complete_instruction([n EXCEPT !.cpu.branch_taken = FALSE])
       [] cyc = 3 -> complete_instruction([n EXCEPT !.cpu.pc = c.temp_addr])
       [] OTHER -> n

branch(n, taken) ==
  LET c == n.cpu
      cyc == c.current_op_cycle
      crossed == c.page_crossed \/ high_u8(c.temp_addr) # high_u8(c.pc)
  IN CASE cyc = 2 ->
            IF taken THEN [n EXCEPT !.cpu.branch_taken = TRUE]
            ELSE complete_instruction([n EXCEPT !.cpu.branch_taken = FALSE])
       [] cyc = 3 ->
            LET n1 == [n EXCEPT !.cpu.page_crossed = crossed,
                                !.cpu.pc = c.temp_addr]
            IN IF crossed THEN n1 ELSE complete_instruction(n1)
       [] cyc = 4 -> complete_instruction(ctx_read_mem_u8(n, c.pc).n)
       [] OTHER -> n

relative(n) ==
  LET c == n.cpu
      cyc == c.current_op_cycle
      k == c.op_kind
      n1 == CASE cyc = 2 ->
                   LET r == ctx_read_mem_u8(n, c.pc)
                       \* as i8 as u16: sign extension
                       offset == IF r.val >= 128 THEN r.val + \hFF00 ELSE r.val
                       pc1 == (c.pc + 1) % 65536
                   IN [r.n EXCEPT !.cpu.pc = pc1,
                                  !.cpu.temp_addr = (pc1 + offset) % 65536]
              [] cyc = 3 -> ctx_read_mem_u8(n, c.pc).n
              [] OTHER -> n
  IN branch(n1,
            CASE k = "Bcc" -> ~has_bits(c.p, C)
              [] k = "Bcs" -> has_bits(c.p, C)
              [] k = "Beq" -> has_bits(c.p, Z)
              [] k = "Bmi" -> has_bits(c.p, N)
              [] k = "Bne" -> ~has_bits(c.p, Z)
              [] k = "Bpl" -> ~has_bits(c.p, N)
              [] k = "Bvc" -> ~has_bits(c.p, O)
              [] k = "Bvs" -> has_bits(c.p, O))

get_next_op(n) ==
  LET decode(m, op) ==
        IF op = <<>>
        THEN [m EXCEPT !.err = "Unknown opcode"]
        ELSE [m EXCEPT !.cpu.op_kind = op[1],
                       !.cpu.addressing_mode = op[2],
                       !.cpu.access_mode = op[3]]
      fetched(r) == decode(increment_pc(r.n), into_op(r.val))
  IN fetched(read_next_pc_u8([n EXCEPT !.cpu.op_start_addr = n.cpu.pc]))

\* CpuContext::clock(): one CPU cycle.  n.err is the Err it returns.
cpu_clock(n0) ==
  LET c == n0.cpu
      atBreakpoint == ~instruction_ongoing(c) /\ is_breakpoint(c, c.pc)
      dispatch(n) ==
        CASE n.cpu.addressing_mode = "Relative" -> relative(n)
          [] n.cpu.addressing_mode = "Absolute" -> absolute(n)
          [] n.cpu.addressing_mode \in {"AbsoluteX", "AbsoluteY"} -> absolute_indexed(n)
          [] n.cpu.addressing_mode = "ZeroPage" -> zero_page(n)
          [] n.cpu.addressing_mode \in {"ZeroPageX", "ZeroPageY"} -> zero_page_indexed(n)
          [] n.cpu.addressing_mode = "Indirect" -> indirect(n)
          [] n.cpu.addressing_mode = "IndirectX" -> indirect_x(n)
          [] n.cpu.addressing_mode = "IndirectY" -> indirect_y(n)
          [] n.cpu.addressing_mode = "Accumulator" -> accumulator(n)
          [] n.cpu.addressing_mode = "Immediate" -> immediate(n)
          [] n.cpu.addressing_mode = "Implied" -> implied(n)
      latch(n, t) ==
        [n EXCEPT !.ppu = t.ppu,
                  !.cpu.nmi_pending = IF t.val THEN n.cpu.current_op_cycle ELSE @]
      poll_nmi(n) == latch(n, nmi_triggered(n.ppu))
      run(n) ==
        IF n.cpu.op_kind = "None" THEN get_next_op(n) ELSE poll_nmi(dispatch(n))
      after_dma(d) ==
        IF d.busy THEN d.n
        ELSE run([d.n EXCEPT !.cpu.current_op_cycle = (@ + 1) % 256])
  IN IF atBreakpoint /\ ~c.breakpoint_reached
     THEN [n0 EXCEPT !.cpu.breakpoint_reached = TRUE,
                     !.err = "Breakpoint reached"]
     ELSE after_dma(clock_oamdma([n0 EXCEPT !.cpu.breakpoint_reached = FALSE,
                                            !.cpu.cycles = @ + 1]))

CpuContext(method, args) ==
  CASE method = "clock" -> cpu_clock(args[1])
    [] method = "read_mem_u8" -> read_mem_u8(args[1], args[2], args[3])
    [] method = "write_mem_u8" -> write_mem_u8(args[1], args[2], args[3])
    [] method = "do_read_operation" -> do_read_operation(args[1])

\* Cpu::clock(nes): a CpuContext with read_only: false, clocked.
Cpu_clock(n) == CpuContext("clock", <<n>>)

(******************************** nes.rs ***********************************)

\* Nes::new(): counter starts at 1, no cartridge inserted.
Nes_new(ram) ==
  [cpu |-> Cpu_new(ram), ppu |-> Ppu_new, cart |-> Cartridge_default,
   counter |-> 1, err |-> ""]

\* Nes::reset(): the vector is read through Nes::cpu_read_mem (read_only).
Nes_reset(n) ==
  LET high(lo, hi) == [hi.n EXCEPT !.cpu.pc = BitOr(lo, hi.val * 256)]
      low(lo) == high(lo.val, read_mem_u8(lo.n, \hFFFD, TRUE))
  IN low(read_mem_u8([n EXCEPT !.ppu = Ppu_reset(@), !.cpu = Cpu_reset(@)],
                     \hFFFC, TRUE))

insert_cartridge(n, c) == Nes_reset([n EXCEPT !.cart = c])

\* Nes::power(): ram stands for the rand_vec! of the new Cpu.
power(n, ram) == Nes_reset([n EXCEPT !.cpu = Cpu_new(ram), !.ppu = Ppu_new])

\* Nes::clock(): one master tick.  The ? on Cpu::clock returns before the
\* counter is incremented.
\* A master clock that ticks the CPU one tick after every third.
Nes_clock_late(n) ==
  LET cpu_tick(m) == IF m.counter % 3 = 1 THEN Cpu_clock(m) ELSE m
      count(m) == IF m.err # "" THEN m ELSE [m EXCEPT !.counter = @ + 1]
  IN IF ~n.cart.valid THEN [n EXCEPT !.err = ""]
     ELSE count(cpu_tick(ppu_clock([n EXCEPT !.err = ""])))

Nes_clock(n) ==
  LET cpu_tick(m) == IF m.counter % 3 = 0 THEN Cpu_clock(m) ELSE m
      count(m) == IF m.err # "" THEN m ELSE [m EXCEPT !.counter = @ + 1]
  IN IF ~n.cart.valid THEN [n EXCEPT !.err = ""]
     ELSE count(cpu_tick(ppu_clock([n EXCEPT !.err = ""])))

\* op_size (op.rs:343-359).
op_size(addressing_mode) ==
  CASE addressing_mode \in {"Implied", "Accumulator"} -> 1
    [] addressing_mode \in {"Immediate", "Relative", "ZeroPage", "ZeroPageX",
                            "ZeroPageY", "IndirectX", "IndirectY"} -> 2
    [] addressing_mode \in {"Absolute", "AbsoluteX", "AbsoluteY", "Indirect"} -> 3

\* Nes::cpu_op_at(addr): the reads are those of Nes::cpu_read_mem
\* (read_only).  The result is [entry, n].
cpu_op_at(n, addr) ==
  LET invalid(m, opcode) ==
        [entry |-> [addr |-> addr, opcode |-> opcode, size |-> 1,
                    kind |-> "Invalid", addr_mode |-> "Implied",
                    operands |-> <<0, 0>>],
         n |-> m]
      entry(m, opcode, op, b0, b1) ==
        [entry |-> [addr |-> addr, opcode |-> opcode, size |-> op_size(op[2]),
                    kind |-> op[1], addr_mode |-> op[2], operands |-> <<b0, b1>>],
         n |-> m]
      second(opcode, op, r0, r1) == entry(r1.n, opcode, op, r0.val, r1.val)
      first(opcode, op, r0) ==
        IF op_size(op[2]) > 2
        THEN second(opcode, op, r0, read_mem_u8(r0.n, addr + 2, TRUE))
        ELSE entry(r0.n, opcode, op, r0.val, 0)
      decoded(m, opcode, op) ==
        CASE op = <<>> -> invalid(m, opcode)
          [] addr + op_size(op[2]) >= \h10000 -> invalid(m, opcode)
          [] op_size(op[2]) > 1 -> first(opcode, op, read_mem_u8(m, addr + 1, TRUE))
          [] OTHER -> entry(m, opcode, op, 0, 0)
      fetched(r) == decoded(r.n, r.val, into_op(r.val))
  IN fetched(read_mem_u8(n, addr, TRUE))

(****************************** the harness ********************************)

\* The Nes the variables hold, as a machine record, and its installation as
\* the next state.
Machine ==
  [cpu |-> cpu, ppu |-> ppu, cart |-> cart, counter |-> counter, err |-> ""]

Install(n) ==
  /\ cpu' = n.cpu
  /\ ppu' = n.ppu
  /\ cart' = n.cart
  /\ counter' = n.counter
  /\ ret' = n.err

\* Bytes laid out from offset base on.
Bytes(base, seq) == [i \in base .. (base + Len(seq) - 1) |-> seq[i - base + 1]]

\* The interrupt vectors of every image used here: NMI $9000, RESET $8000,
\* IRQ/BRK $A000.
Vectors == <<\h00, \h90, \h00, \h80, \h00, \hA0>>

\* A 16 KiB NROM cartridge: code at $8000, NOPs elsewhere.
NromCart(code) ==
  Cartridge_from("Horizontal",
    NromMapper_new([len |-> \h4000, fill |-> \hEA,
                    w |-> Bytes(0, code) @@ Bytes(\h3FFA, Vectors)],
                   VecNew(\h2000, 0)))

\* A 32 KiB MMC3 cartridge: code at offset org of the PRG image (CPU address
\* $8000 + org with the power-on banks), NOPs elsewhere.
Mmc3Cart(org, code, prg_ram) ==
  Cartridge_from("Horizontal",
    Mmc3Mapper_new([len |-> \h8000, fill |-> \hEA,
                    w |-> Bytes(org, code) @@ Bytes(\h7FFA, Vectors)],
                   VecNew(\h40000, 0), prg_ram))

\* rand_vec! content: every cell the same byte, the byte drawn from RamFills.
RamFills == {\h00, \hFF}

(*********************** the MMC3 scanline counter *************************)

MaxLatch == 9

MaxIrqClocks == 12

\* The counter is armed: at 0, with a latch in 1..255, IRQ enabled and not
\* asserted.
Mmc3Armed(m) ==
  m.irq_counter = 0 /\ m.irq_enabled /\ ~m.irq_triggered /\ m.irq_reload \in 1 .. 255

InitMmc3 ==
  \E fill \in RamFills :
    LET n == insert_cartridge(Nes_new(VecNew(\h0800, fill)),
                              Mmc3Cart(0, <<>>, VecNew(\h2000, fill)))
    IN /\ cpu = n.cpu /\ ppu = n.ppu /\ cart = n.cart /\ counter = n.counter
       /\ ret = ""
       /\ drv = [call |-> "none"]
       /\ obs = [armed |-> FALSE, latch |-> 0, edges |-> 0, clocks |-> 0]

\* Nes::cpu_write_mem on one of the MMC3 IRQ ports.
WriteIrqPort ==
  \E addr \in {\hC000, \hC001, \hE000, \hE001}, val \in 0 .. MaxLatch :
    /\ Install(write_mem_u8(Machine, addr, val))
    /\ obs' = [obs EXCEPT !.armed = Mmc3Armed(cart'.mapper),
                          !.latch = cart'.mapper.irq_reload,
                          !.edges = 0]
    /\ UNCHANGED drv

\* Cartridge::clock_irq(), as the PPU calls it on an A12 rise.
ClockIrq ==
  /\ obs.clocks < MaxIrqClocks
  /\ cart' = cart_clock_irq(cart)
  /\ obs' = [obs EXCEPT !.edges = @ + 1, !.clocks = @ + 1]
  /\ UNCHANGED <<cpu, ppu, counter, ret, drv>>

NextMmc3 == WriteIrqPort \/ ClockIrq

SpecMmc3 == InitMmc3 /\ [][NextMmc3]_vars

(**************************** the master clock *****************************)

MaxClockCalls == 21

BreakAddrs == {\h8000, \h8001}

\* NOP; an opcode into_op does not know; NOP ...
ClockProgram == <<\hEA, \h02>>

InitClock ==
  \E fill \in RamFills :
    LET n == insert_cartridge(Nes_new(VecNew(\h0800, fill)), NromCart(ClockProgram))
    IN /\ cpu = n.cpu /\ ppu = n.ppu /\ cart = n.cart /\ counter = n.counter
       /\ ret = ""
       /\ drv = [call |-> "none"]
       /\ obs = [calls |-> 0, ppuTicks |-> 0, cpuTicks |-> 0,
                 sinceCpu |-> 0, gap |-> 0, halt |-> <<>>,
                 reported |-> -1, again |-> FALSE, moved |-> FALSE]

\* What one call of Nes::clock() did, read off the state before and after:
\* the PPU ticked when its dot moved, the CPU when anything of it changed (a
\* cycle that ends in Err still flips breakpoint_reached or counts a cycle).
PpuTicked == <<ppu'.scanline, ppu'.cycle>> # <<ppu.scanline, ppu.cycle>>

CpuTicked == cpu' # cpu

\* PC and the registers.
CpuRegisters(c) == <<c.pc, c.a, c.x, c.y, c.s, c.p>>

\* The host calls Nes::clock().
Clock ==
  /\ obs.calls < MaxClockCalls
  /\ Install(Nes_clock(Machine))
  /\ obs' = [calls |-> obs.calls + 1,
             ppuTicks |-> obs.ppuTicks + (IF PpuTicked THEN 1 ELSE 0),
             cpuTicks |-> obs.cpuTicks + (IF CpuTicked THEN 1 ELSE 0),
             \* PPU ticks since the last CPU tick, this call's included
             sinceCpu |-> IF CpuTicked THEN 0
                          ELSE obs.sinceCpu + (IF PpuTicked THEN 1 ELSE 0),
             \* PPU ticks from the CPU tick before to this one
             gap |-> IF CpuTicked /\ obs.cpuTicks > 0
                     THEN obs.sinceCpu + (IF PpuTicked THEN 1 ELSE 0)
                     ELSE obs.gap,
             \* PC and the registers as the first unknown-opcode error left them
             halt |-> IF obs.halt = <<>> /\ ret' = "Unknown opcode"
                      THEN CpuRegisters(cpu') ELSE obs.halt,
             \* the instruction boundary the breakpoint error was reported
             \* for, as long as execution stays at it (-1: none)
             reported |-> CASE ret' = "Breakpoint reached" -> cpu.pc
                            [] cpu'.pc # cpu.pc \/ instruction_ongoing(cpu') -> -1
                            [] OTHER -> obs.reported,
             \* the error was reported a second time for that boundary
             again |-> obs.again
                       \/ (ret' = "Breakpoint reached" /\ obs.reported = cpu.pc),
             \* a call that reported the error changed PC, a register or
             \* the cycle counter
             moved |-> obs.moved
                       \/ (/\ ret' = "Breakpoint reached"
                           /\ <<CpuRegisters(cpu'), cpu'.cycles>>
                                # <<CpuRegisters(cpu), cpu.cycles>>)]
  /\ UNCHANGED drv

\* The host toggles a breakpoint through Nes::cpu_mut().
ToggleBreakpoint ==
  \E addr \in BreakAddrs :
    /\ cpu' = toggle_breakpoint(cpu, addr)
    /\ UNCHANGED <<ppu, cart, counter, ret, drv, obs>>

NextClock == Clock \/ ToggleBreakpoint

SpecClock == InitClock /\ [][NextClock]_vars

\* C1: with a valid cartridge every clock() ticks the PPU exactly once, and
\* from one CPU tick to the next exactly three PPU ticks elapse, whatever the
\* calls return.
C1_EveryThirdTick ==
  /\ obs.ppuTicks = obs.calls
  /\ obs.gap \in {0, 3}

\* C8: from counter 0 with latch N in 1..255 and IRQ enabled, the IRQ is not
\* asserted after any of the first N clock_irq() calls and is asserted after
\* the (N+1)-th.
C8_IrqAtNPlus1 ==
  obs.armed =>
    /\ (obs.edges <= obs.latch => ~cart.mapper.irq_triggered)
    /\ (obs.edges = obs.latch + 1 => cart.mapper.irq_triggered)

C8_Witness ==
  /\ obs.armed /\ obs.latch = 8 /\ obs.edges = 9
  /\ cart.mapper.irq_triggered

(******************************* step_frame ********************************)

MaxFrames == 3

MaxHostWrites == 1

\* PPUMASK values the host pokes: rendering off, background on.
MaskValues == {\h00, \h08}

\* loop: LDA #mask; STA $2001; JMP loop
MaskLoop(mask) == <<\hA9, mask, \h8D, \h01, \h20, \h4C, \h00, \h80>>

InitFrame ==
  \E mask \in MaskValues :
    LET n == insert_cartridge(Nes_new(VecNew(\h0800, 0)), NromCart(MaskLoop(mask)))
    IN /\ cpu = n.cpu /\ ppu = n.ppu /\ cart = n.cart /\ counter = n.counter
       /\ ret = ""
       /\ drv = [call |-> "none"]
       /\ obs = [frames |-> 0, writes |-> 0, dots |-> 0, cycles0 |-> 0,
                 counter0 |-> 0, odd0 |-> FALSE, bg0 |-> FALSE, bgEver |-> FALSE,
                 d |-> 0, dc |-> 0]

\* One iteration of the loop of Nes::step_frame(): n is the machine after
\* self.clock(), o the observations up to the iteration.
step_frame_iter(n, o) ==
  /\ Install(n)
  /\ drv' = [call |-> IF n.err # "" \/ frame_completed(n.ppu)
                      THEN "none" ELSE "step_frame"]
  /\ obs' = IF n.err = "" /\ frame_completed(n.ppu)
            THEN [o EXCEPT !.frames = @ + 1,
                           !.dots = @ + 1,
                           !.bgEver = @ \/ has_bits(n.ppu.ppu_mask, \h08),
                           !.d = o.dots + 1,
                           !.dc = n.cpu.cycles - o.cycles0]
            ELSE [o EXCEPT !.dots = @ + 1,
                           !.bgEver = @ \/ has_bits(n.ppu.ppu_mask, \h08)]

\* The host calls Nes::step_frame(): the first iteration of its loop.
StepFrame ==
  /\ drv.call = "none"
  /\ obs.frames < MaxFrames
  /\ step_frame_iter(Nes_clock(Machine),
                     [obs EXCEPT !.dots = 0,
                                 !.cycles0 = cpu.cycles,
                                 !.counter0 = counter,
                                 !.odd0 = ppu.odd_frame,
                                 !.bg0 = has_bits(ppu.ppu_mask, \h08),
                                 !.bgEver = has_bits(ppu.ppu_mask, \h08)])

\* The later iterations.
StepFrameClock ==
  /\ drv.call = "step_frame"
  /\ step_frame_iter(Nes_clock(Machine), obs)

\* Between two step_frame() calls the host writes PPUMASK through Nes::cpu_write_mem.
HostWriteMask ==
  \E val \in MaskValues :
    /\ drv.call = "none"
    /\ obs.writes < MaxHostWrites
    /\ Install(write_mem_u8(Machine, \h2001, val))
    /\ obs' = [obs EXCEPT !.writes = @ + 1]
    /\ UNCHANGED drv

NextFrame == StepFrame \/ StepFrameClock \/ HostWriteMask

SpecFrame == InitFrame /\ [][NextFrame]_vars

FrameDone == obs.frames > 0 /\ drv.call = "none" /\ ret = ""

\* C2 as stated: a frame has 89,341 dots, except an odd frame with background
\* rendering disabled throughout, which has 89,342.
C2_AsStated ==
  FrameDone =>
    obs.d = IF obs.odd0 /\ ~obs.bgEver THEN 89342 ELSE 89341

\* C2: a frame run by step_frame() from scanline 0, dot 0 has 89,342 dots,
\* except an odd frame whose first tick finds background rendering enabled,
\* which has 89,341.
C2_FrameDots ==
  FrameDone =>
    obs.d = IF obs.odd0 /\ obs.bg0 THEN 89341 ELSE 89342

C2_Witness ==
  FrameDone /\ obs.odd0 /\ obs.bg0 /\ obs.d = 89341

\* C3 as stated: over a frame of d dots run by step_frame() without error the
\* CPU cycle counter grows by floor(d / 3).
C3_AsStated ==
  FrameDone => obs.dc = obs.d \div 3

\* C3: over a frame of d dots run by step_frame() without error, started with
\* the master counter at c0, the CPU cycle counter grows by the number of
\* multiples of 3 in c0 .. c0 + d - 1, which is floor(d / 3) or
\* floor(d / 3) + 1.
C3_FrameCycles ==
  FrameDone =>
    /\ obs.dc = ((obs.counter0 + obs.d - 1) \div 3) - ((obs.counter0 - 1) \div 3)
    /\ obs.dc \in {obs.d \div 3, (obs.d \div 3) + 1}

C3_Witness ==
  FrameDone /\ obs.dc = (obs.d \div 3) + 1

(***************************** step_instruction ****************************)

\* No step_instruction() call begins once the CPU cycle counter has reached
\* the budget of the scenario: one budget for each family of scenarios.
MaxTimingCycles == 6

MaxDmaCycles == 530

MaxIntrCycles == 27420

MaxIrqCycles == 330

\* Nes::clock() calls the host makes itself, between step_instruction() calls.
MaxHostClocks == 3
\* Nes::clock() calls ahead of a reset.
MaxResetLead == 140
MaxStatusCycles == 40

\* Every opcode into_op knows, and one it does not.
Opcodes == {code \in 0 .. 255 : into_op(code) # <<>>} \cup {\h02}

\* Operand bytes: zero-page $10 / absolute $0210 / branch +16, and zero-page
\* $FF / absolute $02FF / branch -1.
Operands == {<<\h10, \h02>>, <<\hFF, \h02>>}

\* Offsets of the program in the PRG image: at the start of a page and near
\* the end of one.
Origins == {\h0000, \h00F0}

\* Status registers the host sets: the flags C, Z, V, N all clear, all set.
StatusValues == {\h34, \hF7}

\* A scenario: the program, the content of RAM, the registers the host sets
\* through Nes::cpu_mut() before the first step_instruction(), and the number
\* of Nes::clock() calls the host makes itself.  The other fields are set by
\* the scenarios that need them: ram, the cells of the power-on RAM that
\* differ from the fill; reset, the host calls Nes::reset() after its clock()
\* calls and ahead of the first step_instruction(); status, the PPUSTATUS the
\* host sets through Nes::ppu_mut().
Scenario(org, code, fill, av, xv, yv, pv, budget, clocks) ==
  [org |-> org, code |-> code, fill |-> fill, a |-> av, x |-> xv, y |-> yv,
   p |-> pv, budget |-> budget, clocks |-> clocks, ram |-> <<>>,
   reset |-> FALSE, status |-> 0]

\* NOP, then the opcode with its operands, with X = Y = 1.
TimingScenarios ==
  {Scenario(org, <<\hEA, op, b[1], b[2]>>, fill, 0, 1, 1, pv, MaxTimingCycles, 0) :
     op \in Opcodes, b \in Operands, org \in Origins, fill \in RamFills,
     pv \in StatusValues}

\* The same, with clock() calls of the host among the step_instruction()
\* calls: a step_instruction() can begin in the middle of an instruction.
ClockScenarios ==
  {Scenario(0, <<\hEA, op, \h10, \h02>>, 0, 0, 1, 1, \h34,
            MaxTimingCycles + 1, MaxHostClocks) : op \in Opcodes}

\* NOP; NOP ..., after a clock() and a reset() of the host.
ResetScenarios ==
  {[Scenario(0, <<\hEA>>, 0, 0, 1, 1, \h34, MaxTimingCycles, 1)
      EXCEPT !.reset = TRUE]}

\* The instructions that write $4014: STA, STX, STY $4014; STA $4013,X;
\* INC $4014 (which writes twice).
DmaWriters ==
  {<<\h8D, \h14, \h40>>, <<\h8E, \h14, \h40>>, <<\h8C, \h14, \h40>>,
   <<\h9D, \h13, \h40>>, <<\hEE, \h14, \h40>>}

\* The pages copied: RAM, the PPU registers, the APU and controller
\* registers, the last page of the PRG ROM.
DmaPages == {\h02, \h20, \h40, \hFF}

\* Nothing, or LDA $10 (3 cycles), ahead of the write: the write lands on an
\* even or on an odd cycle.
DmaLeads == {<<>>, <<\hA5, \h10>>}

DmaScenarios ==
  {Scenario(0, lead \o w, 0, page, IF w[1] = \h9D THEN 1 ELSE page, page,
            \h34, MaxDmaCycles, 0) :
     lead \in DmaLeads, w \in DmaWriters, page \in DmaPages}

\* The short variants of NOP: DOP #$00, DOP $10, DOP $10,X; and NOP itself.
LoopBodies == {<<\h80, \h00>>, <<\h04, \h10>>, <<\h14, \h10>>, <<\hEA>>}

\* LDA #$80; STA $2000 (NMI on VBlank); loop: the body; JMP loop.
NmiLoop(body) == <<\hA9, \h80, \h8D, \h00, \h20>> \o body \o <<\h4C, \h05, \h80>>

\* LDA #$08; STA $2001 (background on); STA $E001 (MMC3 IRQ on, latch 0: the
\* IRQ is asserted on every A12 rise, at dot 256 of every other line);
\* 40 x NOP; CLI; NOP ...
IrqMasked ==
  <<\hA9, \h08, \h8D, \h01, \h20, \h8D, \h01, \hE0>>
    \o [i \in 1 .. 40 |-> \hEA] \o <<\h58>>

\* Background, NMI and MMC3 IRQ on; a delay loop up to line 236 of the frame;
\* CLI; STA $4014, whose DMA lasts beyond the start of VBlank; DOP $10.
\*   LDA #$08; STA $2001; LDA #$80; STA $2000; STA $E001; LDY #21; LDX #0;
\*   l: DEX; BNE l; DEY; BNE l; CLI; STA $4014; DOP $10
NmiAndIrq ==
  <<\hA9, \h08, \h8D, \h01, \h20, \hA9, \h80, \h8D, \h00, \h20,
    \h8D, \h01, \hE0, \hA0, \h15, \hA2, \h00,
    \hCA, \hD0, \hFD, \h88, \hD0, \hFA,
    \h58, \h8D, \h14, \h40, \h04, \h10>>

\* Power-on RAM whose page $02 holds a different byte in every cell.
RamPage == [i \in \h0200 .. \h02FF |-> 255 - (i % 256)]

\* The values written to OAMADDR and to PPUMASK (rendering off, background on)
\* ahead of the DMA.
OamAddrs == {\h00, \h04, \hFE}
OamMasks == {\h00, \h08}

\* LDX #mask; STX $2001; LDX #a; STX $2003; LDA #$02; STA $4014; NOP
OamScenarios ==
  {[Scenario(0, <<\hA2, mask, \h8E, \h01, \h20, \hA2, oa, \h8E, \h03, \h20,
                  \hA9, \h02, \h8D, \h14, \h40, \hEA>>,
             0, 0, 0, 0, \h34, MaxDmaCycles + 20, 0) EXCEPT !.ram = RamPage] :
     oa \in OamAddrs, mask \in OamMasks}

\* A delay of 26963 + 5n + 1 cycles:
\*   LDY #21; LDX #0; l: DEX; BNE l; DEY; BNE l; LDX #n; m: DEX; BNE m
VblDelay(n) ==
  <<\hA0, \h15, \hA2, \h00, \hCA, \hD0, \hFD, \h88, \hD0, \hFA,
    \hA2, n, \hCA, \hD0, \hFD>>

\* The iterations of the second loop that bring the access below to the start
\* of VBlank of the first frame.
VblIterations == \h51

\* NOP; NOP; NOP (6 cycles) or LDX $10; NOP; NOP (7 cycles) ahead of the
\* access.
VblPads == {<<\hEA, \hEA, \hEA>>, <<\hA6, \h10, \hEA, \hEA>>}

\* The number of Nes::clock() calls of the host ahead of its Nes::reset(): the
\* CPU ticks on the calls whose count is a multiple of 3 and reset() puts the
\* PPU back to dot 0 of scanline 0 without touching the count, so the calls
\* choose the dot of every three that the CPU ticks on.
VblLeads == {0, 1, 2}

\* The accesses at the start of VBlank, with the PPUCTRL value written at the
\* start of the program:
\*   NMI on;  LDA #$FF; LDA $2002
\*   NMI on;  LDA #$00; STA $2000
\*   NMI off; LDA #$80; STA $2000
VblAccesses ==
  {<<\h80, <<\hA9, \hFF, \hAD, \h02, \h20>>>>,
   <<\h80, <<\hA9, \h00, \h8D, \h00, \h20>>>>,
   <<\h00, <<\hA9, \h80, \h8D, \h00, \h20>>>>}

\* LDA #ctrl; STA $2000; the delay; the pad; the access; e: JMP e
VblProgram(ctrl, pad, access) ==
  LET body == <<\hA9, ctrl, \h8D, \h00, \h20>> \o VblDelay(VblIterations)
                \o pad \o access
      e == \h8000 + Len(body)
  IN body \o <<\h4C, e % 256, e \div 256>>

\* The last of the scenarios reads PPUSTATUS one dot ahead of VBlank with the
\* VBlank flag still set (as after a reset() during VBlank).
VblScenarios ==
  {[Scenario(0, VblProgram(acc[1], pad, acc[2]), 0, 0, 0, 0, \h34,
             MaxIntrCycles, k) EXCEPT !.reset = k > 0] :
     acc \in VblAccesses, pad \in VblPads, k \in VblLeads}
    \cup {[Scenario(0, VblProgram(\h00, <<\hEA, \hEA, \hEA>>,
                                   <<\hA9, \hFF, \hAD, \h02, \h20>>),
                     0, 0, 0, 0, \h34, MaxIntrCycles, 0) EXCEPT !.status = \h80]}

\* The PPUSTATUS values the host sets and the bytes the program writes to the
\* PPU registers (and so to the open bus latch).
PpuStatusValues == {\h00, \h40, \h60, \h80, \hE0}
OpenBusValues == {\h15, \hEA}

\* STA $2005; LDA $2002; STX $2006; LDA $200A; STX $2005; STX $2006;
\* LDA $2002; STX $2005; e: JMP e
StatusProgram ==
  <<\h8D, \h05, \h20, \hAD, \h02, \h20, \h8E, \h06, \h20, \hAD, \h0A, \h20,
    \h8E, \h05, \h20, \h8E, \h06, \h20, \hAD, \h02, \h20, \h8E, \h05, \h20,
    \h4C, \h18, \h80>>

StatusScenarios ==
  {[Scenario(0, StatusProgram, 0, av, xv, 0, \h34, MaxStatusCycles, 0)
      EXCEPT !.status = st] :
     av \in OpenBusValues, xv \in OpenBusValues, st \in PpuStatusValues}

IntrScenarios ==
  {Scenario(0, NmiLoop(body), 0, 0, 0, 0, \h34, MaxIntrCycles, 0) : body \in LoopBodies}
    \cup {Scenario(0, NmiAndIrq, 0, 0, 0, 0, \h34, MaxIntrCycles, 0),
          Scenario(0, IrqMasked, 0, 0, 0, 0, \h34, MaxIrqCycles, 0)}

\* LDX #$01; TXS; LDY #$77; LDA #$05; STA $2003; LDA #$23; STA $2006;
\* STA $2006; LDA #$80; STA $2000 (NMI on: with the VBlank flag set the NMI
\* is raised at once); INC $10; NOP ...
ResetProgram ==
  <<\hA2, \h01, \h9A, \hA0, \h77, \hA9, \h05, \h8D, \h03, \h20,
    \hA9, \h23, \h8D, \h06, \h20, \h8D, \h06, \h20,
    \hA9, \h80, \h8D, \h00, \h20, \hE6, \h10>>

\* The host sets P and PPUSTATUS, calls clock() k times and then reset().
ResetAnywhere ==
  {[Scenario(0, ResetProgram, 0, 0, 0, 0, pv, MaxTimingCycles, k)
      EXCEPT !.reset = TRUE, !.status = st] :
     pv \in {\h30, \h34}, st \in {\h60, \hE0}, k \in 0 .. MaxResetLead}

\* The machine of a scenario: power-on RAM, the cartridge inserted, the
\* registers set.
Boot(sc) ==
  LET n == insert_cartridge(Nes_new([VecNew(\h0800, sc.fill) EXCEPT !.w = sc.ram]),
                            Mmc3Cart(sc.org, sc.code, VecNew(\h2000, sc.fill)))
  IN [n EXCEPT !.cpu.pc = \h8000 + sc.org, !.cpu.a = sc.a, !.cpu.x = sc.x,
               !.cpu.y = sc.y, !.cpu.p = sc.p,
               !.ppu.ppu_status = IF sc.status = 0 THEN @ ELSE sc.status]

\* The cycle count the timing table of the documentation gives for the
\* instruction at the PC of machine n: by addressing mode and access mode,
\* plus the page-cross and branch-taken penalties; 0 for an opcode into_op does
\* not know.
documented_cycles(n) ==
  LET c == n.cpu
      byte(addr) == read_mem_u8(n, addr % 65536, TRUE).val
      cycles(kind, mode, access, b1, ind) ==
       LET p == CASE mode = "AbsoluteX" -> IF b1 + c.x > 255 THEN 1 ELSE 0
                  [] mode = "AbsoluteY" -> IF b1 + c.y > 255 THEN 1 ELSE 0
                  [] mode = "IndirectY" -> IF ind + c.y > 255 THEN 1 ELSE 0
                  [] OTHER -> 0
           rw(r, w, m) == CASE access = "Read" -> r
                            [] access = "Write" -> w
                            [] access = "ReadModifyWrite" -> m
           taken == CASE kind = "Bcc" -> ~has_bits(c.p, C)
                      [] kind = "Bcs" -> has_bits(c.p, C)
                      [] kind = "Beq" -> has_bits(c.p, Z)
                      [] kind = "Bmi" -> has_bits(c.p, N)
                      [] kind = "Bne" -> ~has_bits(c.p, Z)
                      [] kind = "Bpl" -> ~has_bits(c.p, N)
                      [] kind = "Bvc" -> ~has_bits(c.p, O)
                      [] kind = "Bvs" -> has_bits(c.p, O)
           next == (c.pc + 2) % 65536
           target == (next + (IF b1 >= 128 THEN b1 + \hFF00 ELSE b1)) % 65536
           pagecross == high_u8(target) # high_u8(next)
       IN IF kind \in {"Brk", "Rts", "Rti", "Pha", "Php", "Pla", "Plp", "Jsr", "Jmp"}
          THEN CASE kind = "Brk" -> 7
                 [] kind \in {"Rts", "Rti", "Jsr"} -> 6
                 [] kind \in {"Pha", "Php"} -> 3
                 [] kind \in {"Pla", "Plp"} -> 4
                 [] kind = "Jmp" -> IF mode = "Absolute" THEN 3 ELSE 5
          ELSE CASE mode = "Relative" ->
                      IF taken THEN (IF pagecross THEN 4 ELSE 3) ELSE 2
                 [] mode \in {"Implied", "Accumulator", "Immediate"} -> 2
                 [] mode = "ZeroPage" -> rw(3, 3, 5)
                 [] mode \in {"ZeroPageX", "ZeroPageY", "Absolute"} -> rw(4, 4, 6)
                 [] mode \in {"AbsoluteX", "AbsoluteY"} -> rw(4 + p, 5, 7)
                 [] mode = "IndirectX" -> rw(6, 6, 8)
                 [] mode = "IndirectY" -> rw(5 + p, 6, 8)
      decoded(op, b1) ==
        IF op = <<>> THEN 0 ELSE cycles(op[1], op[2], op[3], b1, byte(b1))
  IN decoded(into_op(byte(c.pc)), byte(c.pc + 1))

\* What one Nes::clock() did to the CPU, read off the CPU before (c0) and
\* after (c1): it ran a cycle; the cycle was one of an OAM DMA (clock_oamdma
\* returned true); the cycle completed an instruction or an interrupt
\* sequence; the cycle started an interrupt sequence; the cycle wrote $4014.
CpuCycle(c0, c1) == c1.cycles # c0.cycles

Suspended(c0, c1) == CpuCycle(c0, c1) /\ c0.pending_oamdma.idx <= \hFF

Completed(c0, c1) ==
  /\ CpuCycle(c0, c1) /\ ~Suspended(c0, c1)
  /\ instruction_ongoing(c0) /\ c1.current_op_cycle = 0

InterruptStarted(c0, c1) ==
  /\ CpuCycle(c0, c1) /\ ~Suspended(c0, c1)
  /\ c1.op_kind \in {"Nmi", "Irq"} /\ c1.current_op_cycle = 0

OamDmaWritten(c0, c1) ==
  CpuCycle(c0, c1) /\ ~Suspended(c0, c1) /\ c1.pending_oamdma.idx = 0

\* OAM of PPU p holds, from offset oa on (wrapping), the 256 bytes of page
\* `page` of the internal RAM of CPU c.
OamCopied(c, p, oa, page) ==
  \A i \in 0 .. 255 :
    VecGet(p.primary_oam, (oa + i) % 256)
      = VecGet(c.internal_ram, (page * 256 + i) % \h0800)

NmiStarted(c0, c1) == InterruptStarted(c0, c1) /\ c1.op_kind = "Nmi"

\* The CPU cycle is the last of an LDA $2002 (or of a mirror of it): the
\* cycle that reads the operand.
StatusRead(c0, c1) ==
  /\ Completed(c0, c1)
  /\ c0.op_kind = "Lda" /\ c0.addressing_mode = "Absolute"
  /\ effective_cpu_addr(c0.temp_addr) = \h2002

\* The access the CPU cycle of a Nes::clock() made to the PPU at the start of
\* VBlank: q is the PPU after the Ppu::clock() of the call, p the PPU after
\* the call.
\*   readBefore  PPUSTATUS was read with the counter at VBL - 1 (the only
\*               assignment of true to suppress_next_nmi)
\*   readAt      PPUSTATUS was read with the counter at VBL or VBL + 1 (the
\*               VBlank flag, set, is clear after the call)
\*   ctrlOff     PPUCTRL was written with NMI-enable clear, which was set, with
\*               the counter in VBL - 1 .. VBL + 1
\*   ctrlOn      PPUCTRL was written with NMI-enable set, which was clear, with
\*               the counter at VBL
vbl_race(q, p) ==
  LET vbl == q.vbl_cycle_counter - VBL_PPU_CYCLE
      enabled0 == has_bits(q.ppu_ctrl, \h80)
      enabled1 == has_bits(p.ppu_ctrl, \h80)
  IN IF ~q.suppress_next_nmi /\ p.suppress_next_nmi THEN "readBefore"
     ELSE IF vbl \in {0, 1} /\ has_bits(q.ppu_status, \h80)
             /\ ~has_bits(p.ppu_status, \h80) THEN "readAt"
     ELSE IF vbl \in {-1, 0, 1} /\ enabled0 /\ ~enabled1 THEN "ctrlOff"
     ELSE IF vbl = 0 /\ ~enabled0 /\ enabled1 THEN "ctrlOn"
     ELSE "none"

\* The observations o with the access `race` of vbl_race(q, n.ppu) noted.
observe_race(o, race, q, n) ==
  IF o.race # "none" \/ race = "none" THEN o
  ELSE [o EXCEPT !.race = race,
                 !.raceVal = n.cpu.a,
                 !.raceAt = q.vbl_cycle_counter - VBL_PPU_CYCLE,
                 !.raceStatus = q.ppu_status,
                 !.raceNmi = q.nmi_triggered]

\* The observations o with the read of PPUSTATUS (read) or the write of
\* PPUSCROLL or PPUADDR (the write toggle changed without a read) of the CPU
\* cycle noted.
observe_status(o, read, q, n) ==
  IF read
  THEN [o EXCEPT !.rd = "read",
                 !.rdVal = n.cpu.a,
                 !.rdAt = q.vbl_cycle_counter - VBL_PPU_CYCLE,
                 !.rdStatus = q.ppu_status,
                 !.rdBus = q.open_bus,
                 !.rdAfter = n.ppu.ppu_status,
                 !.rdW = n.ppu.w_toggle]
  ELSE IF o.rd = "read" /\ q.w_toggle # n.ppu.w_toggle
  THEN [o EXCEPT !.rd = IF n.ppu.w_toggle /\ n.ppu.vram_addr = q.vram_addr
                        THEN "first" ELSE "second"]
  ELSE o

\* The observations after one more Nes::clock() of a step_instruction() call:
\* n is the machine after the clock, o the observations before it.
\*   dma, intr, delta  DMA cycles, interrupt sequences started and CPU cycles
\*                     elapsed in the call
\*   run               the cycles, DMA cycles left out, of the instruction or
\*                     interrupt sequence under way, its fetch included
\*   opLen, seqLen     the same of the last instruction and of the last
\*                     interrupt sequence that completed
\*   opTaken, opCross  branch_taken and page_crossed of the CPU ahead of the
\*                     cycle that completed the last instruction
\*   dmaActive, dmaLen, dmaW   a DMA begun by a $4014 write is running, the
\*                     cycles it has suspended the CPU for, and the cycle
\*                     counter at the write
\*   dmaDone, dmaDoneW the same of the last DMA that ended
\*   dmaA, dmaP        OAMADDR and the page number at the $4014 write
\*   dmaCopied         when the last DMA ended, OAM held the page from dmaA on
\*   race, raceVal     the first access of vbl_race made, and register A
\*                     after it (the value returned, when LDA made the access)
\*   raceAt, raceStatus, raceNmi   the counter of the PPU at the access less
\*                     VBL_PPU_CYCLE, and PPUSTATUS and nmi_triggered ahead
\*                     of the access
\*   rd                "read" after an LDA $2002; "first" or "second" after
\*                     the PPUSCROLL or PPUADDR write that followed it: the
\*                     write was taken for a first or for a second write
\*   rdVal, rdAt       the value the last LDA $2002 loaded, and the counter of
\*                     the PPU at the read less VBL_PPU_CYCLE
\*   rdStatus, rdBus   PPUSTATUS and the open bus latch ahead of the read
\*   rdAfter, rdW      PPUSTATUS and the write toggle after the read
\*   nmis, nmiAfter    NMI sequences started, in all and since the access
\*   line              the mapper asserted its IRQ and the disable port has
\*                     not been written since
observe(n, o) ==
  LET ran == CpuCycle(cpu, n.cpu)
      busy == Suspended(cpu, n.cpu)
      written == OamDmaWritten(cpu, n.cpu)
      ended == o.dmaActive /\ ran /\ ~busy
      seen(o1, q) ==
        IF ~ran THEN o1
        ELSE observe_status(observe_race(o1, vbl_race(q, n.ppu), q, n),
                            StatusRead(cpu, n.cpu), q, n)
  IN seen(
      [o EXCEPT
        !.nmis = @ + (IF NmiStarted(cpu, n.cpu) THEN 1 ELSE 0),
        !.nmiAfter = IF o.race = "none" THEN @
                     ELSE @ + (IF NmiStarted(cpu, n.cpu) THEN 1 ELSE 0),
        !.dma = @ + (IF busy THEN 1 ELSE 0),
        !.intr = @ + (IF InterruptStarted(cpu, n.cpu) THEN 1 ELSE 0),
        !.delta = n.cpu.cycles - o.cyc0,
        !.run = IF ~ran \/ busy THEN @ ELSE IF Completed(cpu, n.cpu) THEN 0 ELSE @ + 1,
        !.opLen = IF Completed(cpu, n.cpu) /\ cpu.op_kind \notin {"Nmi", "Irq"}
                  THEN o.run + 1 ELSE @,
        !.opTaken = IF Completed(cpu, n.cpu) /\ cpu.op_kind \notin {"Nmi", "Irq"}
                    THEN cpu.branch_taken ELSE @,
        !.opCross = IF Completed(cpu, n.cpu) /\ cpu.op_kind \notin {"Nmi", "Irq"}
                    THEN cpu.page_crossed ELSE @,
        !.seqLen = IF Completed(cpu, n.cpu) /\ cpu.op_kind \in {"Nmi", "Irq"}
                   THEN o.run + 1 ELSE @,
        !.dmaActive = IF written THEN TRUE ELSE IF ended THEN FALSE ELSE @,
        !.dmaLen = IF written THEN 0
                   ELSE IF o.dmaActive /\ busy THEN @ + 1 ELSE @,
        !.dmaW = IF written THEN n.cpu.cycles ELSE @,
        !.dmaDone = IF ended THEN o.dmaLen ELSE @,
        !.dmaDoneW = IF ended THEN o.dmaW ELSE @,
        !.dmaA = IF written THEN n.ppu.oam_addr ELSE @,
        !.dmaP = IF written THEN n.cpu.pending_oamdma.addr \div 256 ELSE @,
        !.dmaCopied = IF ended THEN OamCopied(cpu, ppu, o.dmaA, o.dmaP) ELSE @,
        !.line = IF ~n.cart.mapper.irq_enabled THEN FALSE
                 ELSE @ \/ n.cart.mapper.irq_triggered],
      IF ran THEN ppu_clock(Machine).ppu ELSE ppu)

\* One iteration of the loops of Nes::step_instruction(): n is the machine
\* after self.clock(), o the observations up to the iteration, phase the loop
\* the clock was called in (1: while !instruction_ongoing, 2: while
\* instruction_ongoing).
step_instruction_iter(n, o, phase) ==
  LET ongoing == instruction_ongoing(n.cpu)
      returns == n.err # "" \/ (phase = 2 /\ ~ongoing)
  IN /\ Install(n)
     /\ drv' = [drv EXCEPT !.call = IF returns THEN "none" ELSE "step_instruction",
                           !.phase = IF returns THEN 0
                                     ELSE IF ongoing THEN 2 ELSE 1,
                           !.last = "step_instruction"]
     /\ obs' = observe(n, o)

\* The host calls Nes::step_instruction(): the first iteration.
StepInstruction ==
  /\ drv.call = "none"
  /\ ~drv.reset
  /\ cpu.cycles < drv.budget
  /\ step_instruction_iter(
       Nes_clock(Machine),
       [obs EXCEPT !.calls = @ + 1,
                   !.clean = ~instruction_ongoing(cpu) /\ cpu.current_op_cycle = 0,
                   !.cyc0 = cpu.cycles,
                   !.doc = documented_cycles(Machine),
                   !.dma = 0, !.intr = 0, !.delta = 0,
                   !.opLen = 0, !.seqLen = 0,
                   !.opTaken = FALSE, !.opCross = FALSE],
       IF instruction_ongoing(cpu) THEN 2 ELSE 1)

\* The later iterations.
StepInstructionClock ==
  /\ drv.call = "step_instruction"
  /\ step_instruction_iter(Nes_clock(Machine), obs, drv.phase)

\* The host calls Nes::clock(); n is the machine after the call.
host_clock(n) ==
  /\ Install(n)
  /\ drv' = [drv EXCEPT !.clocks = @ - 1, !.last = "clock"]
  /\ obs' = observe(n, obs)

HostClock ==
  /\ drv.call = "none"
  /\ drv.clocks > 0
  /\ host_clock(Nes_clock(Machine))

\* What a reset is compared with: the registers, the instruction under way
\* and the NMI state of the CPU and the PPU ahead of it.
ResetView(c, p) ==
  [a |-> c.a, x |-> c.x, y |-> c.y, p |-> c.p, s |-> c.s,
   op_kind |-> c.op_kind, nmi_pending |-> c.nmi_pending,
   nmi_triggered |-> p.nmi_triggered,
   oam_addr |-> p.oam_addr, ppu_addr |-> p.ppu_addr, ppu_status |-> p.ppu_status]

\* The host calls Nes::reset(), after the last of its clock() calls.
HostReset ==
  /\ drv.call = "none"
  /\ drv.reset /\ drv.clocks = 0
  /\ Install(Nes_reset(Machine))
  /\ drv' = [drv EXCEPT !.reset = FALSE, !.last = "reset"]
  /\ obs' = [obs EXCEPT !.pre = ResetView(cpu, ppu)]

InitScenario(scenarios) ==
  \E sc \in scenarios :
    LET booted(n) ==
          cpu = n.cpu /\ ppu = n.ppu /\ cart = n.cart /\ counter = n.counter
    IN /\ booted(Boot(sc))
       /\ ret = ""
       /\ drv = [call |-> "none", phase |-> 0, budget |-> sc.budget,
                 clocks |-> sc.clocks, reset |-> sc.reset, last |-> "none"]
       /\ obs = [calls |-> 0, clean |-> FALSE, cyc0 |-> 0, doc |-> 0, dma |-> 0,
                 intr |-> 0, delta |-> 0,
                 run |-> 0, opLen |-> 0, seqLen |-> 0,
                 opTaken |-> FALSE, opCross |-> FALSE,
                 dmaActive |-> FALSE, dmaLen |-> 0, dmaW |-> 0,
                 dmaDone |-> 0, dmaDoneW |-> 0, dmaA |-> 0, dmaP |-> 0,
                 dmaCopied |-> FALSE, line |-> FALSE,
                 race |-> "none", raceVal |-> 0, raceAt |-> 0, raceStatus |-> 0,
                 raceNmi |-> FALSE, nmis |-> 0, nmiAfter |-> 0,
                 rd |-> "none", rdVal |-> 0, rdAt |-> 0, rdStatus |-> 0,
                 rdBus |-> 0, rdAfter |-> 0, rdW |-> FALSE,
                 pre |-> <<>>]

InitCpu ==
  InitScenario(TimingScenarios \cup ClockScenarios \cup ResetScenarios
                 \cup DmaScenarios \cup OamScenarios \cup IntrScenarios)

NextCpu == StepInstruction \/ StepInstructionClock \/ HostClock \/ HostReset

SpecCpu == InitCpu /\ [][NextCpu]_vars

\* A step_instruction() call has returned Ok.
CallDone == drv.call = "none" /\ drv.last = "step_instruction" /\ ret = ""

C5_NmiDispatched ==
  [][(Completed(cpu, cpu') /\ cpu.nmi_pending # -1) => cpu'.op_kind = "Nmi"]_vars

\* C6: an interrupt sequence starts only on the cycle that completes an
\* instruction; an IRQ sequence only with the I flag clear, and never at a
\* boundary at which an NMI is latched.
C6_InterruptStart ==
  [][InterruptStarted(cpu, cpu') =>
       /\ Completed(cpu, cpu')
       /\ cpu'.op_kind = "Irq" =>
            (~has_bits(cpu'.p, I) /\ cpu.nmi_pending = -1)]_vars

\* C7: at an instruction boundary with the I flag clear and no NMI latched,
\* the IRQ sequence starts if the mapper has asserted its IRQ and the disable
\* port has not been written since.
C7_IrqLevel ==
  [][(Completed(cpu, cpu') /\ obs'.line /\ ~has_bits(cpu'.p, I)
        /\ cpu.nmi_pending = -1) => cpu'.op_kind = "Irq"]_vars

\* PC, A, X, Y, S, P and the state of the instruction in flight.
InFlight(c) ==
  <<c.pc, c.a, c.x, c.y, c.s, c.p, c.op_kind, c.addressing_mode, c.access_mode,
    c.current_op_cycle, c.temp_addr, c.temp_value, c.branch_taken,
    c.page_crossed, c.nmi_pending>>

C10_DmaLength ==
  obs.dmaDone # 0 => obs.dmaDone = IF obs.dmaDoneW % 2 = 1 THEN 514 ELSE 513
\* C11: when a DMA from a page of the internal RAM has completed, OAM holds the
\* 256 bytes of the page from the OAMADDR of the $4014 write on, wherever in
\* the frame the DMA began and whether rendering is enabled or not.
C11_OamCopied == (obs.dmaDone # 0 /\ obs.dmaP < \h20) => obs.dmaCopied

(*********************** the start of VBlank and the NMI *******************)

InitVbl == InitScenario(VblScenarios \cup StatusScenarios)

SpecVbl == InitVbl /\ [][NextCpu]_vars

\* The run of a scenario has reached the end of its budget of cycles.
RunDone == cpu.cycles >= drv.budget /\ drv.call = "none"

\* C12: a read of PPUSTATUS with the counter at VBL - 1 returns bit 7 clear
\* and no NMI is dispatched in the frame; after a read with the counter at VBL
\* or VBL + 1, and after a PPUCTRL write with NMI-enable clear with the
\* counter in VBL - 1 .. VBL + 1, no NMI is dispatched in the frame either.
C12_NmiRace ==
  /\ obs.race \in {"readBefore", "readAt", "ctrlOff"} =>
        obs.nmiAfter = 0 /\ ppu.nmi_triggered = FALSE
  /\ obs.race = "readBefore" => ~has_bits(obs.raceVal, \h80)

\* The NMI raised by the PPU at VBL was cancelled by a read at VBL + 1, and
\* the run went on beyond the instruction that read.
C12_Witness ==
  /\ obs.race = "readAt" /\ obs.raceAt = 1 /\ obs.raceNmi
  /\ RunDone /\ obs.nmis = 0

\* C13: when NMI-enable, clear before, is set by a PPUCTRL write on the CPU
\* cycle of the Nes::clock() in which the PPU processes dot 1 of scanline 241,
\* no NMI is dispatched in the frame.
C13_NoNmiOnEnable == obs.race = "ctrlOn" => obs.nmiAfter = 0

\* C14 as stated: an LDA $2002 loads (PPUSTATUS & $E0) | (open bus & $1F),
\* PPUSTATUS and the open bus latch as they are when the CPU cycle reads.
C14_AsStated ==
  obs.rd # "none" =>
    obs.rdVal = BitOr(BitAnd(obs.rdStatus, \hE0), BitAnd(obs.rdBus, \h1F))

\* C14: an LDA $2002 loads (PPUSTATUS & $E0) | (open bus & $1F), with bit 7
\* clear when the counter of the PPU is at VBL - 1; it leaves bit 7 of
\* PPUSTATUS and the write toggle clear and bits 5 and 6 as they were, and the
\* PPUSCROLL or PPUADDR write that follows it is taken for a first write.
C14_StatusRead ==
  obs.rd # "none" =>
    /\ obs.rdVal = BitOr(BitAnd(IF obs.rdAt = -1 THEN BitAnd(obs.rdStatus, \h7F)
                                ELSE obs.rdStatus, \hE0),
                         BitAnd(obs.rdBus, \h1F))
    /\ ~has_bits(obs.rdAfter, \h80) /\ ~obs.rdW
    /\ BitAnd(obs.rdAfter, \h60) = BitAnd(obs.rdStatus, \h60)
    /\ obs.rd # "second"

\* PPUSTATUS $C0 was read with $15 on the open bus, and the write after the
\* read was taken for a first write.
C14_Witness ==
  /\ obs.rd = "first" /\ obs.rdStatus = \hC0 /\ obs.rdBus = \h15
  /\ obs.rdVal = \hD5 /\ obs.rdAfter = \h40

(*************************** the cartridge ports ***************************)

MaxCartWrites == 6

\* PRG-ROM sizes in 16 KiB units (header byte 4).
UxRomSizes == {1, 2, 8, 16}

NromSizes == {1, 2}

\* A PRG image of size16 16 KiB units, NOPs except for the number b + 1 at
\* offset $10 of every 8 KiB bank b and the vectors at its end.
BankedImage(size16) ==
  [len |-> size16 * \h4000, fill |-> \hEA,
   w |-> [i \in {b * \h2000 + \h10 : b \in 0 .. (2 * size16 - 1)} |->
            (i \div \h2000) + 1]
         @@ Bytes(size16 * \h4000 - 6, Vectors)]

\* The cartridges Cartridge::from_bytes builds from the images used here.
Mmc1Cartridges ==
  {Cartridge_from("Horizontal",
     Mmc1Mapper_new(BankedImage(4), VecNew(\h20000, 0), VecNew(\h4000, fill)))
     : fill \in RamFills}

Cartridges ==
  {Cartridge_from("Horizontal",
          Mmc3Mapper_new(BankedImage(4), VecNew(\h40000, 0), VecNew(\h2000, \h00)))}
  \cup {Cartridge_from("Horizontal",
          UxRomMapper_new(BankedImage(size16), VecNew(\h2000, 0)))
          : size16 \in UxRomSizes}
  \cup {Cartridge_from("Horizontal",
          NromMapper_new(BankedImage(size16), VecNew(\h2000, 0)))
          : size16 \in NromSizes}

\* The writes tried on each kind of cartridge, as <<addr, val, gap>>: gap is
\* the number of CPU cycles since the write before.
CartInputs(kind) ==
  CASE kind = "MMC1" ->
         ({\h8000, \hA000, \hC000, \hE000} \X {\h00, \h01, \h80} \X {1, 2})
         \cup ({\h6000} \X {\h01} \X {1, 2})
    [] kind = "MMC3" ->
         {\h8000, \h8001} \X {\h00, \h01, \h05, \h06, \h46} \X {1}
    [] kind = "UXROM" -> {\h8000, \hC010} \X {\h00, \h01, \h07} \X {1}
    [] kind = "NROM" -> {\h8010, \hC010} \X {\h00, \hFF} \X {1}
    [] kind = "MMC4" ->
         ({\hC000, \hE000} \X {\h03} \X {1}) \cup ({\hA000} \X {\h01} \X {1})

\* The addresses read back: offset $10 of each 8 KiB slot.
CartProbes == {\h8010, \hA010, \hC010, \hE010}

\* The MMC1 control and bank registers.
Mmc1Regs(m) == <<control_register(m), m.chr_bank0, m.chr_bank1, m.prg_bank>>

\* The MMC1 without its record of the last write cycle.
Mmc1State(m) == [m EXCEPT !.prev_write_cycle = 0]

InitCartridge(cartridges) ==
  \E c \in cartridges :
    LET n == Nes_new(VecNew(\h0800, \h00))
    IN /\ cpu = n.cpu /\ ppu = n.ppu /\ counter = n.counter
       /\ cart = c
       /\ ret = ""
       /\ drv = [call |-> "none"]
       /\ obs = [writes |-> 0, cycle |-> 0, rom0 |-> c.mapper.prg_rom,
                 \* the last write: what it was, and the mapper before it
                 last |-> "none", addr |-> 0, val |-> 0, gap |-> 0,
                 locked |-> FALSE, pre |-> c.mapper,
                 \* the write before the last one
                 pair |-> FALSE, prevLocked |-> FALSE, prevApplied |-> FALSE,
                 \* the MMC1 serial sequence under way
                 k |-> 0, v |-> 0, kAddr |-> 0, regs0 |-> <<>>,
                 \* the MMC3 bank-select and R6 writes so far
                 sel |-> 0, idx |-> 0, r6 |-> 0,
                 \* the last read since the last write
                 rdAddr |-> 0, rdVal |-> 0,
                 \* the last call of a cartridge port, the mapper before it,
                 \* and the address and result of a PPU-side call
                 op |-> "none", before |-> c.mapper, pAddr |-> 0, pVal |-> 0,
                 ppuWrites |-> 0]

\* What the harness records of a write: addr, val and gap are the inputs, m
\* the mapper before it, m1 the mapper after it.
observe_write(o, addr, val, gap, m, m1) ==
  LET port == addr \in \h8000 .. \hFFFF
      \* on the cycle right after the cartridge write before
      locked == o.writes > 0 /\ gap = 1
      serial == m.kind = "MMC1" /\ port /\ ~locked
      applied == m.kind = "MMC1" /\ port
                 /\ Mmc1State(m1) = Mmc1State(write_load_register(m, addr, val))
      k == CASE ~serial -> o.k
             [] val >= \h80 -> 0
             [] o.k \in 1 .. 4 -> o.k + 1
             [] m.shift_register = \h10 -> 1
             [] OTHER -> 0
      bank == m.kind = "MMC3" /\ addr \in \h8000 .. \h9FFF
  IN [o EXCEPT
        !.writes = @ + 1, !.cycle = @ + gap,
        !.last = CASE ~port -> "ram"
                   [] m.kind # "MMC1" -> "port"
                   [] locked -> "locked"
                   [] val >= \h80 -> "reset"
                   [] OTHER -> "serial",
        !.addr = addr, !.val = val, !.gap = gap, !.locked = locked,
        !.pre = m,
        !.pair = m.kind = "MMC1" /\ port /\ o.last \in {"locked", "reset", "serial"},
        !.prevLocked = o.locked, !.prevApplied = applied,
        !.k = k,
        !.v = CASE ~serial \/ k = 0 -> @
                [] k = 1 -> val % 2
                [] OTHER -> @ + (val % 2) * 2 ^ (k - 1),
        !.kAddr = IF serial /\ k > 0 THEN addr ELSE @,
        !.regs0 = IF serial /\ k = 1 THEN Mmc1Regs(m) ELSE @,
        !.sel = IF bank /\ addr % 2 = 0 THEN (val \div 64) % 2 ELSE @,
        !.idx = IF bank /\ addr % 2 = 0 THEN val % 8 ELSE @,
        !.r6 = IF bank /\ addr % 2 = 1 /\ o.idx = 6 THEN val ELSE @,
        !.rdAddr = 0, !.rdVal = 0,
        !.op = "cpu_write", !.before = m, !.pAddr = 0, !.pVal = 0]

\* Cartridge::cpu_write_u8(addr, val, cycle), cycle being the CPU cycle
\* counter of the write (cpu.rs:1026).
CartWrite ==
  \E in \in CartInputs(cart.mapper.kind) :
    /\ obs.writes < MaxCartWrites
    /\ cart' = cart_cpu_write_u8(cart, in[1], in[2], obs.cycle + in[3])
    /\ obs' = observe_write(obs, in[1], in[2], in[3], cart.mapper, cart'.mapper)
    /\ UNCHANGED <<cpu, ppu, counter, ret, drv>>

\* Cartridge::cpu_read_u8(addr).
CartRead ==
  \E addr \in CartProbes :
    /\ obs' = [obs EXCEPT !.rdAddr = addr, !.rdVal = cart_cpu_read_u8(cart, addr),
                           !.op = "cpu_read", !.before = cart.mapper,
                           !.pAddr = 0, !.pVal = 0]
    /\ UNCHANGED <<cpu, ppu, cart, counter, ret, drv>>

InitCart == InitCartridge(Cartridges)

NextCart == CartWrite \/ CartRead

SpecCart == InitCart /\ [][NextCart]_vars

InitMmc1 == InitCartridge(Mmc1Cartridges)

NextMmc1 == CartWrite

SpecMmc1 == InitMmc1 /\ [][NextMmc1]_vars

(***************************************************************************)
(* The MMC4 cartridge, with its PPU-side ports.                            *)
(***************************************************************************)

MaxPpuWrites == 1

\* A CHR image of 32 4 KiB banks; bank b holds b + 1 at the offsets probed.
ChrImage ==
  [len |-> \h20000, fill |-> \h00,
   w |-> [i \in {b * \h1000 + off : b \in 0 .. 31,
                                     off \in {\h010, \hFD8, \hFDF, \hFE0, \hFE8}} |->
            (i \div \h1000) + 1]]

Mmc4Cartridges ==
  {Cartridge_from("Horizontal",
     Mmc4Mapper_new(BankedImage(4), ChrImage, VecNew(\h2000, \h00)))}

\* The PPU addresses read: in each half an ordinary one, the ends of the FD
\* range, the address between the ranges and the start of the FE range; and
\* a nametable address.
PpuProbes ==
  {\h0010, \h0FD8, \h0FDF, \h0FE0, \h0FE8,
   \h1010, \h1FD8, \h1FDF, \h1FE0, \h1FE8, \h2010}

\* Cartridge::ppu_read_u8(addr).
CartPpuRead ==
  \E addr \in PpuProbes :
    LET r == cart_ppu_read_u8(cart, addr)
    IN /\ cart' = r.c
       /\ obs' = [obs EXCEPT !.op = "ppu_read", !.before = cart.mapper,
                              !.pAddr = addr, !.pVal = r.val,
                              !.rdAddr = 0, !.rdVal = 0]
       /\ UNCHANGED <<cpu, ppu, counter, ret, drv>>

\* Cartridge::ppu_write_u8(addr, val).
CartPpuWrite ==
  \E addr \in {\h0FD8, \h2010} :
    /\ obs.ppuWrites < MaxPpuWrites
    /\ cart' = cart_ppu_write_u8(cart, addr, \h55).c
    /\ obs' = [obs EXCEPT !.op = "ppu_write", !.before = cart.mapper,
                           !.pAddr = addr, !.pVal = \h55, !.ppuWrites = @ + 1,
                           !.rdAddr = 0, !.rdVal = 0]
    /\ UNCHANGED <<cpu, ppu, counter, ret, drv>>

InitMmc4 == InitCartridge(Mmc4Cartridges)

NextMmc4 == CartWrite \/ CartRead \/ CartPpuRead \/ CartPpuWrite

SpecMmc4 == InitMmc4 /\ [][NextMmc4]_vars

\* The register the fifth write's address selects: 1 control, 2 CHR bank 0,
\* 3 CHR bank 1, 4 PRG bank.
Mmc1Selected == ((obs.kAddr \div \h2000) % 4) + 1

\* C15 as stated: the selected register holds the whole 5-bit value.
C15_AsStated ==
  (cart.mapper.kind = "MMC1" /\ obs.k = 5) =>
     Mmc1Regs(cart.mapper)[Mmc1Selected] = obs.v

\* C15: from the reset state of the shift register, the first four accepted
\* writes with bit 7 clear leave the control and bank registers as they were,
\* and the fifth puts the value formed from bit 0 of the five writes (first
\* write lowest) into the register its address selects - the low four bits of
\* it when that is the PRG bank register - leaves the other registers alone
\* and returns the shift register to 0b10000.
C15_SerialCommit ==
  cart.mapper.kind = "MMC1" =>
    /\ obs.k \in 1 .. 4 => Mmc1Regs(cart.mapper) = obs.regs0
    /\ obs.k = 5 =>
         /\ cart.mapper.shift_register = \h10
         /\ Mmc1Regs(cart.mapper) =
              [obs.regs0 EXCEPT ![Mmc1Selected] =
                 IF Mmc1Selected = 4 THEN obs.v % 16 ELSE obs.v]

C15_Witness ==
  /\ cart.mapper.kind = "MMC1" /\ obs.k = 5 /\ obs.last = "serial"
  /\ Mmc1Selected = 2 /\ obs.v = \h15 /\ cart.mapper.chr_bank0 = \h15
  /\ cart.mapper.shift_register = \h10

\* C16: an accepted MMC1 write with bit 7 set leaves the shift register at
\* 0b10000 and the PRG bank mode at 3.
C16_ResetWrite ==
  (cart.mapper.kind = "MMC1" /\ obs.last = "reset") =>
     /\ cart.mapper.shift_register = \h10
     /\ cart.mapper.prg_bank_mode = 3

PrgOfR6(off) == VecGet(obs.rom0, (obs.r6 % 64) * \h2000 + off)

PrgSecondLast(off) == VecGet(obs.rom0, obs.rom0.len - \h4000 + off)

\* C18: an MMC3 read of $8000-$9FFF returns the byte of the R6 bank when bit 6
\* of the last bank-select write is clear and of the second-last bank when it
\* is set, and a read of $C000-$DFFF the other way round.
C18_PrgMode ==
  cart.mapper.kind = "MMC3" =>
    /\ obs.rdAddr \in \h8000 .. \h9FFF =>
         obs.rdVal = IF obs.sel = 0 THEN PrgOfR6(obs.rdAddr % \h2000)
                     ELSE PrgSecondLast(obs.rdAddr % \h2000)
    /\ obs.rdAddr \in \hC000 .. \hDFFF =>
         obs.rdVal = IF obs.sel = 0 THEN PrgSecondLast(obs.rdAddr % \h2000)
                     ELSE PrgOfR6(obs.rdAddr % \h2000)

\* C19: a UxROM read of $C000-$FFFF returns the byte at the same offset of
\* the last 16 KiB of the PRG image.
C19_LastBank ==
  (cart.mapper.kind = "UXROM" /\ obs.rdAddr \in \hC000 .. \hFFFF) =>
     obs.rdVal = VecGet(obs.rom0, obs.rom0.len - \h4000 + (obs.rdAddr - \hC000))

\* C20: an NROM read of $8000-$FFFF returns the byte of the PRG image the
\* cartridge was built from, whatever was written before.
C20_NoPrgWrite ==
  (cart.mapper.kind = "NROM" /\ obs.rdAddr \in \h8000 .. \hFFFF) =>
     obs.rdVal = VecGet(obs.rom0, (obs.rdAddr - \h8000) % obs.rom0.len)

(***************************************************************************)
(* MMC4 CHR latches (mmc4.rs:96-115).                                      *)
(***************************************************************************)

\* The latch of a half after a PPU read of addr, given the latch before.
Latch0After(addr, latch) ==
  CASE addr \in \h0FD8 .. \h0FDF -> \hFD
    [] addr \in \h0FE8 .. \h0FEF -> \hFE
    [] OTHER -> latch

Latch1After(addr, latch) ==
  CASE addr \in \h1FD8 .. \h1FDF -> \hFD
    [] addr \in \h1FE8 .. \h1FEF -> \hFE
    [] OTHER -> latch

\* C21: on the MMC4, a PPU read in $0000-$0FFF returns the CHR byte of the
\* bank register (chr_bank0_fd or chr_bank0_fe) chosen by latch_0, and a
\* read in $1000-$1FFF that of the register chosen by latch_1, the latch
\* being read as the call leaves it; a PPU read in $0FD8-$0FDF sets latch_0
\* to $FD, one in $0FE8-$0FEF to $FE, one in $1FD8-$1FDF sets latch_1 to $FD,
\* one in $1FE8-$1FEF to $FE; every other PPU read, every PPU write and every
\* CPU read or write leaves both latches as they were.
C21_ChrLatches ==
  LET m == cart.mapper
      b == obs.before
      a == obs.pAddr
      read == obs.op = "ppu_read"
      bank0 == IF m.latch_0 = \hFD THEN m.chr_bank0_fd ELSE m.chr_bank0_fe
      bank1 == IF m.latch_1 = \hFD THEN m.chr_bank1_fd ELSE m.chr_bank1_fe
  IN /\ m.latch_0 \in {\hFD, \hFE} /\ m.latch_1 \in {\hFD, \hFE}
     /\ m.latch_0 = IF read THEN Latch0After(a, b.latch_0) ELSE b.latch_0
     /\ m.latch_1 = IF read THEN Latch1After(a, b.latch_1) ELSE b.latch_1
     /\ read /\ a \in \h0000 .. \h0FFF =>
          obs.pVal = VecGet(m.chr, a + bank0 * \h1000)
     /\ read /\ a \in \h1000 .. \h1FFF =>
          obs.pVal = VecGet(m.chr, a - \h1000 + bank1 * \h1000)
     /\ read /\ a > \h1FFF => obs.pVal = -1

\* The two halves hold different latches and different banks, and a read of
\* the $1000 half has just moved its latch to $FE and returned that bank.
C21_Witness ==
  /\ obs.op = "ppu_read" /\ obs.pAddr = \h1FE8
  /\ obs.before.latch_1 = \hFD /\ cart.mapper.latch_1 = \hFE
  /\ cart.mapper.latch_0 = \hFD
  /\ cart.mapper.chr_bank1_fe = 3 /\ cart.mapper.chr_bank1_fd = 1
  /\ cart.mapper.chr_bank0_fe = 3
  /\ obs.pVal = 4

(***************************************************************************)
(* Unknown opcodes (cpu.rs:1191-1208, nes.rs:140-155).                     *)
(***************************************************************************)

\* C22: once clock() has reported an unknown opcode, no later clock() call
\* fetches or executes an instruction: PC and the registers stay as the
\* error left them and no instruction is under way (no reset(), power() or
\* insert_cartridge() is called in these runs).
C22_HaltedAfterError ==
  obs.halt # <<>> =>
    /\ CpuRegisters(cpu) = obs.halt
    /\ ~instruction_ongoing(cpu)

(***************************************************************************)
(* Breakpoints (cpu.rs:226-248).                                           *)
(***************************************************************************)

\* C23: for one arrival at an instruction boundary whose PC is a breakpoint
\* the breakpoint error is reported once and not again while execution stays
\* at that boundary, also while an OAM DMA keeps the CPU there; and the call
\* that reports it leaves PC, the registers and the cycle counter unchanged.
C23_OncePerArrival == ~obs.again /\ ~obs.moved

(***************************************************************************)
(* Nes::reset() (nes.rs:133-138, cpu.rs:127-138, ppu.rs:148-157).          *)
(***************************************************************************)

InitReset == InitScenario(ResetAnywhere)

NextReset == HostClock \/ HostReset

SpecReset == InitReset /\ [][NextReset]_vars

\* C24: after Nes::reset() A, X and Y are what they were, P is P | $04, S is
\* S - 3 mod 256, no instruction is under way and no NMI is pending, PC is the
\* little-endian word at $FFFC/$FFFD, and the PPU has OAMADDR and ppu_addr
\* (t) as before and of PPUSTATUS bit 7 as before, the other bits clear.
C24_Reset ==
  drv.last = "reset" =>
    LET b == obs.pre
        word(lo, hi) == lo + 256 * hi
    IN /\ cpu.a = b.a /\ cpu.x = b.x /\ cpu.y = b.y
       /\ cpu.p = BitOr(b.p, \h04)
       /\ cpu.s = (b.s + 256 - 3) % 256
       /\ ~instruction_ongoing(cpu) /\ cpu.current_op_cycle = 0
       /\ cpu.nmi_pending = -1 /\ ~ppu.nmi_triggered
       /\ cpu.pc = word(read_mem_u8(Machine, \hFFFC, TRUE).val,
                        read_mem_u8(Machine, \hFFFD, TRUE).val)
       /\ ppu.oam_addr = b.oam_addr
       /\ ppu.ppu_addr = b.ppu_addr
       /\ ppu.ppu_status = BitAnd(b.ppu_status, \h80)

\* A reset in the middle of INC $10 with an NMI pending, S = 1 (which wraps),
\* the I flag clear, and OAMADDR, t and all three PPUSTATUS flags set.
C24_Witness ==
  /\ drv.last = "reset"
  /\ obs.pre.op_kind = "Inc" /\ obs.pre.nmi_pending # -1
  /\ obs.pre.s = 1 /\ cpu.s = \hFE
  /\ obs.pre.p = \h30 /\ cpu.p = \h34
  /\ cpu.a = \h80 /\ cpu.x = 1 /\ cpu.y = \h77
  /\ ppu.oam_addr = 5 /\ ppu.ppu_addr # 0
  /\ obs.pre.ppu_status = \hE0 /\ ppu.ppu_status = \h80
  /\ cpu.pc = \h8000

(***************************************************************************)
(* The controller port (cpu.rs:977-983, 1018-1023).                        *)
(***************************************************************************)

MaxButtonCalls == 3

\* CPU cycles of the program below, the 3 suspended ones ahead of it included.
MaxPadCycles == 56

\* STA $4016; 3 x LDA $4016; STA $4016; 9 x LDA $4016; NOP ...
PadProgram ==
  <<\h8D, \h16, \h40>>
    \o <<\hAD, \h16, \h40, \hAD, \h16, \h40, \hAD, \h16, \h40>>
    \o <<\h8D, \h16, \h40>>
    \o <<\hAD, \h16, \h40, \hAD, \h16, \h40, \hAD, \h16, \h40,
         \hAD, \h16, \h40, \hAD, \h16, \h40, \hAD, \h16, \h40,
         \hAD, \h16, \h40, \hAD, \h16, \h40, \hAD, \h16, \h40>>

\* The order the buttons are read in.
ButtonOrder == <<"A", "B", "Select", "Start", "Up", "Down", "Left", "Right">>

\* The button calls tried: every button pressed, two of them released.
ButtonCalls ==
  ({ButtonOrder[i] : i \in 1 .. 8} \X {TRUE}) \cup ({"A", "Right"} \X {FALSE})

InitPad ==
  LET n == Boot(Scenario(0, PadProgram, 0, \hFF, 0, 0, \h34, MaxPadCycles, 0))
  IN /\ cpu = n.cpu /\ ppu = n.ppu /\ cart = n.cart /\ counter = n.counter
     /\ ret = ""
     /\ drv = [call |-> "none"]
     /\ obs = [calls |-> 0,
               \* the buttons held, by the calls made
               held |-> {},
               \* the buttons held at the last write of $4016
               latched |-> {}, written |-> FALSE,
               \* the reads of $4016 since, and the value of the last one
               reads |-> 0, val |-> 0]

\* The host calls Nes::set_button_state_player1(button, state).
PadButton ==
  \E call \in ButtonCalls :
    /\ obs.calls < MaxButtonCalls
    /\ cpu' = set_button_state_player1(cpu, Button(call[1]), call[2])
    /\ obs' = [obs EXCEPT !.calls = @ + 1,
                          !.held = IF call[2] THEN @ \cup {call[1]}
                                   ELSE @ \ {call[1]}]
    /\ UNCHANGED <<ppu, cart, counter, ret, drv>>

\* The host calls Nes::clock().  The instruction a CPU cycle completes is
\* read off the program: STA $4016 writes the port in its last cycle, LDA
\* $4016 leaves the value read in A.
PadClock ==
  LET done == Completed(cpu, cpu')
      opcode == PadProgram[cpu.op_start_addr - \h8000 + 1]
      inProgram == cpu.op_start_addr - \h8000 < Len(PadProgram)
  IN /\ cpu.cycles < MaxPadCycles
     /\ Install(Nes_clock(Machine))
     /\ obs' = CASE done /\ inProgram /\ opcode = \h8D ->
                      [obs EXCEPT !.latched = obs.held, !.written = TRUE,
                                  !.reads = 0]
                 [] done /\ inProgram /\ opcode = \hAD ->
                      [obs EXCEPT !.reads = @ + 1, !.val = cpu'.a]
                 [] OTHER -> obs
     /\ UNCHANGED drv

NextPad == PadClock \/ PadButton

SpecPad == InitPad /\ [][NextPad]_vars

\* C25: the k-th CPU read of $4016 after a CPU write of $4016, k in 1..8,
\* returns in bit 0 whether the k-th button of the order A, B, Select, Start,
\* Up, Down, Left, Right was held, through set_button_state_player1, at the
\* time of the write; button calls after the write change none of the eight.
C25_ButtonOrder ==
  obs.written /\ obs.reads \in 1 .. 8 =>
    obs.val % 2 = IF ButtonOrder[obs.reads] \in obs.latched THEN 1 ELSE 0

\* The sixth read after the second write returns Down, pressed ahead of the
\* write, although it was A that was pressed after the write.
C25_Witness ==
  /\ obs.written /\ obs.reads = 6 /\ obs.val = 1
  /\ obs.latched = {"Down"} /\ obs.held = {"Down", "A"}
  /\ cpu.pc > \h8000 + 12 + 3

(***************************************************************************)
(* Loading an iNES image (header.rs:21-80, mapper.rs:70-82).               *)
(***************************************************************************)

\* The first four bytes tried: the magic, and three that differ from it.
RomMagics ==
  {<<\h4E, \h45, \h53, \h1A>>, <<\h4E, \h45, \h53, \h00>>,
   <<\h4D, \h45, \h53, \h1A>>, <<\h00, \h00, \h00, \h00>>}

\* flags6: the low nibble of the mapper number over the mirroring, trainer
\* and four-screen bits.
RomFlags6 == {low * 16 + bits : low \in {0, 1, 2, 3, 4, 10, 15}, bits \in {0, 1, 4, 8}}

\* flags7: bits 2..3 equal to 0, 1, 2 (NES 2.0) and 3, and a high nibble.
RomFlags7 == {\h00, \h04, \h08, \h0C, \h10}

RomPrgSizes == {1, 2}

RomChrSizes == {0, 1}

\* An image of the length its header asks for: zeroes, but for the header and
\* a mark at offsets 16 and 528, at the last byte of the PRG data and at the
\* first byte of the CHR data.
RomImage(magic, prg_size, chr_size, flags6, flags7) ==
  LET start == IF (flags6 \div 4) % 2 = 1 THEN 528 ELSE 16
      prg_end == start + prg_size * \h4000
  IN [len |-> prg_end + chr_size * \h2000, fill |-> \h00,
      w |-> Bytes(0, magic \o <<prg_size, chr_size, flags6, flags7>>)
            @@ (16 :> \hA1) @@ (528 :> \hB2) @@ ((prg_end - 1) :> \hC3)
            @@ (IF chr_size > 0 THEN (prg_end :> \hD4) ELSE <<>>)]

RomImages ==
  {RomImage(magic, prg_size, chr_size, flags6, flags7) :
     magic \in RomMagics, prg_size \in RomPrgSizes, chr_size \in RomChrSizes,
     flags6 \in RomFlags6, flags7 \in RomFlags7}

InitRom ==
  \E image \in RomImages :
    LET n == Nes_new(VecNew(\h0800, \h00))
    IN /\ cpu = n.cpu /\ ppu = n.ppu /\ cart = n.cart /\ counter = n.counter
       /\ ret = ""
       /\ drv = [call |-> "none"]
       /\ obs = [bytes |-> image, loaded |-> FALSE]

\* The host calls Cartridge::from_bytes(bytes): cart holds the cartridge
\* built, ret the error.
Load ==
  \E ram \in RamFills :
    LET r == from_bytes(obs.bytes, ram)
    IN /\ ~obs.loaded
       /\ cart' = IF r.err = "" THEN r.cart ELSE cart
       /\ ret' = r.err
       /\ obs' = [obs EXCEPT !.loaded = TRUE]
       /\ UNCHANGED <<cpu, ppu, counter, drv>>

NextRom == Load

SpecRom == InitRom /\ [][NextRom]_vars

\* C26: from_bytes returns an error and builds no cartridge when the first
\* four bytes are not "NES" $1A, when bits 2..3 of flags7 equal 2, when bit 3
\* of flags6 is set, or when the mapper number (high nibble of flags6 as low
\* nibble, high nibble of flags7 as high nibble) is not 0, 1, 2, 4 or 10; for
\* every other image it builds the mapper of that number, with the PRG data
\* taken from offset 16 of the image, or from offset 528 when bit 2 of flags6
\* is set.
C26_FromBytes ==
  obs.loaded =>
    LET at(i) == VecGet(obs.bytes, i)
        number == (at(6) \div 16) + 16 * (at(7) \div 16)
        refused == \/ <<at(0), at(1), at(2), at(3)>> # <<\h4E, \h45, \h53, \h1A>>
                   \/ (at(7) \div 4) % 4 = 2
                   \/ (at(6) \div 8) % 2 = 1
                   \/ number \notin {0, 1, 2, 4, 10}
        start == IF (at(6) \div 4) % 2 = 1 THEN 528 ELSE 16
        rom == cart.mapper.prg_rom
    IN IF refused
       THEN ret # "" /\ cart = Cartridge_default
       ELSE /\ ret = "" /\ cart.valid
            /\ cart.mapper.kind = CASE number = 0 -> "NROM"
                                    [] number = 1 -> "MMC1"
                                    [] number = 2 -> "UXROM"
                                    [] number = 4 -> "MMC3"
                                    [] number = 10 -> "MMC4"
            /\ rom.len = at(4) * \h4000
            /\ \A i \in {0, 512, rom.len - 1} : VecGet(rom, i) = at(start + i)

\* An MMC4 image with a trainer: the PRG data starts with the mark at 528.
C26_Witness ==
  /\ obs.loaded /\ ret = ""
  /\ VecGet(obs.bytes, 6) = \hA4 /\ VecGet(obs.bytes, 7) = \h04
  /\ cart.mapper.kind = "MMC4"
  /\ VecGet(cart.mapper.prg_rom, 0) = \hB2
  /\ VecGet(cart.mapper.prg_rom, cart.mapper.prg_rom.len - 1) = \hC3

(***************************************************************************)
(* Nes::cpu_disassembly() (nes.rs:205-222).                                *)
(***************************************************************************)

\* The vector ops, kept as its length, the addr of its first entry, its
\* last entry, whether every entry so far began where the one before it
\* ended, and whether every entry for an unknown opcode, or for an opcode
\* whose last operand byte would lie past $FFFF, has size 1 and kind Invalid.
NoOps ==
  [count |-> 0, first |-> -1, last |-> <<>>, contiguous |-> TRUE,
   invalid |-> TRUE]

Pushed(ops, e) ==
  [count |-> ops.count + 1,
   first |-> IF ops.count = 0 THEN e.addr ELSE ops.first,
   last |-> e,
   contiguous |-> /\ ops.contiguous
                  /\ ops.count > 0 => e.addr = ops.last.addr + ops.last.size,
   invalid |-> /\ ops.invalid
               /\ (\/ into_op(e.opcode) = <<>>
                   \/ e.addr + op_size(into_op(e.opcode)[2]) > \h10000)
                    => (e.size = 1 /\ e.kind = "Invalid")]

\* Addresses a step of the walk covers.
DisChunk == 16

\* The loop of cpu_disassembly() from pc on, up to the address stop or to
\* its break.  The result is [n, pc, ops, done].
RECURSIVE disassemble(_, _, _, _)
disassemble(n, pc, ops, stop) ==
  LET next(m, pc1, ops1) ==
        CASE pc1 = \hFFFF -> [n |-> m, pc |-> pc1, ops |-> ops1, done |-> TRUE]
          [] pc1 >= stop -> [n |-> m, pc |-> pc1, ops |-> ops1, done |-> FALSE]
          [] OTHER -> disassemble(m, pc1, ops1, stop)
      pushed(r) == next(r.n, pc + r.entry.size, Pushed(ops, r.entry))
  IN pushed(cpu_op_at(n, pc))

\* Bytes at $FFFA-$FFFF: the vectors used elsewhere, whose last entry is the
\* two-byte DOP at $FFFD; LDA #imm at $FFFE; LDA abs at $FFFD.
DisTails ==
  {Vectors,
   <<\hEA, \hEA, \hEA, \hEA, \hA9, \h00>>,
   <<\hEA, \hEA, \hEA, \hAD, \h00, \h00>>}

\* Power-on RAM: LDA abs (three bytes), an unknown opcode.
DisFills == {\hAD, \hFF}

InitDis ==
  \E tail \in DisTails, fill \in DisFills :
    LET c == Cartridge_from("Horizontal",
               NromMapper_new([len |-> \h4000, fill |-> \hEA,
                               w |-> Bytes(0, <<\h02, \hAD>>) @@ Bytes(\h3FFA, tail)],
                              VecNew(\h2000, 0)))
        n == insert_cartridge(Nes_new(VecNew(\h0800, fill)), c)
    IN /\ cpu = n.cpu /\ ppu = n.ppu /\ cart = n.cart /\ counter = n.counter
       /\ ret = ""
       /\ drv = [call |-> "cpu_disassembly"]
       /\ obs = [pc |-> 0, ops |-> NoOps, done |-> FALSE]

\* cpu_disassembly(), DisChunk addresses at a step.
Disassemble ==
  LET walked(r) ==
        /\ Install(r.n)
        /\ obs' = [pc |-> r.pc, ops |-> r.ops, done |-> r.done]
        /\ drv' = [call |-> IF r.done THEN "none" ELSE "cpu_disassembly"]
  IN /\ ~obs.done
     /\ walked(disassemble(Machine, obs.pc, obs.ops,
                           ((obs.pc \div DisChunk) + 1) * DisChunk))

NextDis == Disassemble

SpecDis == InitDis /\ [][NextDis]_vars

\* C27: the entries cpu_disassembly() returns tile the address space: the
\* first is at $0000, each next one begins where the one before it ends, and
\* the last one ends at $FFFF, so that every address $0000-$FFFF is inside
\* exactly one entry; an unknown opcode, or an opcode with operands past
\* $FFFF, gives an entry of size 1 and kind Invalid.
C27_Tiling ==
  obs.done =>
    /\ obs.ops.first = 0
    /\ obs.ops.contiguous
    /\ obs.ops.last.addr + obs.ops.last.size = \h10000
    /\ obs.ops.invalid


(* The dot and scanline counters under clock(), reset(), power() and register
   accesses: a program that keeps reading and writing the PPU registers runs
   for MaxDotFrames frames; at the dots of HostDots the host may call
   reset(), power() or write a PPU register, and MaxTailClocks clock() calls
   follow such a call. *)

MaxDotFrames == 2

MaxTailClocks == 4

HostDots == {0, 1, 340}

\* LDA #mask; STA $2001; LDA $2002; STA $2005; STA $2006; LDA $2007; JMP $8000
DotLoop(mask) ==
  <<\hA9, mask, \h8D, \h01, \h20, \hAD, \h02, \h20, \h8D, \h05, \h20,
    \h8D, \h06, \h20, \hAD, \h07, \h20, \h4C, \h00, \h80>>

InitDots ==
  \E mask \in MaskValues :
    LET n == insert_cartridge(Nes_new(VecNew(\h0800, 0)), NromCart(DotLoop(mask)))
    IN /\ cpu = n.cpu /\ ppu = n.ppu /\ cart = n.cart /\ counter = n.counter
       /\ ret = ""
       /\ drv = [call |-> "run", tail |-> 0]
       /\ obs = [frames |-> 0]

\* The host calls Nes::clock().
DotClock ==
  /\ ret = ""
  /\ IF drv.call = "run" THEN obs.frames < MaxDotFrames
                          ELSE drv.tail < MaxTailClocks
  /\ LET clocked(n) ==
           /\ Install(n)
           /\ obs' = [obs EXCEPT !.frames =
                         IF frame_completed(n.ppu) THEN @ + 1 ELSE @]
     IN clocked(Nes_clock(Machine))
  /\ drv' = IF drv.call = "run" THEN drv ELSE [drv EXCEPT !.tail = @ + 1]

\* The host calls Nes::reset().
DotReset ==
  /\ drv.call = "run" /\ ppu.cycle \in HostDots
  /\ Install(Nes_reset(Machine))
  /\ drv' = [drv EXCEPT !.call = "reset"]
  /\ UNCHANGED obs

\* The host calls Nes::power().
DotPower ==
  /\ drv.call = "run" /\ ppu.cycle \in HostDots
  /\ Install(power(Machine, VecNew(\h0800, 0)))
  /\ drv' = [drv EXCEPT !.call = "power"]
  /\ UNCHANGED obs

\* The host writes a PPU register through Nes::cpu_write_mem.
DotWrite ==
  \E reg \in {\h2000, \h2001, \h2006} :
    /\ drv.call = "run" /\ ppu.cycle \in HostDots
    /\ Install(write_mem_u8(Machine, reg, \h88))
    /\ drv' = [drv EXCEPT !.call = "write"]
    /\ UNCHANGED obs

NextDots == DotClock \/ DotReset \/ DotPower \/ DotWrite

SpecDots == InitDots /\ [][NextDots]_vars

\* C28: whatever clock(), reset(), power() and register accesses came before,
\* the PPU dot counter is in 0..340 and the scanline counter in 0..261.
C28_DotRange == ppu.cycle \in 0 .. 340 /\ ppu.scanline \in 0 .. 261

\* The last dot of the last scanline of an odd frame that skipped its dot 0.
C28_Witness ==
  /\ ppu.cycle = 340 /\ ppu.scanline = 261
  /\ ppu.odd_frame /\ background_rendering_enabled(ppu)
  /\ ret = ""


MaxA12Calls == 13

A12Latch == 5

InitA12 ==
  \E fill \in RamFills :
    LET n == insert_cartridge(Nes_new(VecNew(\h0800, fill)),
                              Mmc3Cart(0, <<>>, VecNew(\h2000, fill)))
    IN /\ cpu = n.cpu /\ ppu = n.ppu /\ cart = n.cart /\ counter = n.counter
       /\ ret = ""
       /\ drv = [call |-> "none", armed |-> FALSE]
       /\ obs = [calls |-> 0, low |-> 0, clocks |-> 0, old |-> 0]

\* What an access that updated the VRAM address is remembered by: the number
\* of updates in a row that left bit 12 clear, the clock_irq() calls (the
\* latch is not 0, so every call moves the counter) and the address ahead of
\* the last update.
observe_a12(n, updated) ==
  IF updated
  THEN [obs EXCEPT !.calls = @ + 1,
                   !.low = IF has_bits(n.ppu.vram_addr, \h1000) THEN 0 ELSE @ + 1,
                   !.clocks = IF n.cart.mapper.irq_counter # cart.mapper.irq_counter
                              THEN @ + 1 ELSE @,
                   !.old = ppu.vram_addr]
  ELSE [obs EXCEPT !.calls = @ + 1]

\* The host writes the IRQ latch: Nes::cpu_write_mem on $C000.
A12Arm ==
  /\ ~drv.armed
  /\ Install(write_mem_u8(Machine, \hC000, A12Latch))
  /\ drv' = [drv EXCEPT !.armed = TRUE]
  /\ UNCHANGED obs

\* A write of PPUADDR on the CPU bus; the second of a pair updates the address.
A12WriteAddr ==
  \E val \in {\h00, \h10} :
    /\ drv.armed /\ obs.calls < MaxA12Calls
    /\ LET written(n) == Install(n) /\ obs' = observe_a12(n, ppu.w_toggle)
       IN written(write_mem_u8(Machine, \h2006, val))
    /\ UNCHANGED drv

\* A read of PPUDATA on the CPU bus: increment_vram_addr().
A12ReadData ==
  /\ drv.armed /\ obs.calls < MaxA12Calls
  /\ LET read(n) == Install(n) /\ obs' = observe_a12(n, TRUE)
     IN read(read_mem_u8(Machine, \h2007, FALSE).n)
  /\ UNCHANGED drv

NextA12 == A12Arm \/ A12WriteAddr \/ A12ReadData

SpecA12 == InitA12 /\ [][NextA12]_vars

\* C30: the mapper's clock_irq() is called only by an address update that
\* finds bit 12 of the VRAM address clear and leaves it set, after at least 8
\* updates in a row that left bit 12 clear, and such an update moves the IRQ
\* counter once.
C30_OnlyOnRise ==
  [][cart'.mapper.irq_counter # cart.mapper.irq_counter =>
       /\ ~has_bits(ppu.vram_addr, \h1000)
       /\ has_bits(ppu'.vram_addr, \h1000)
       /\ obs.low >= 8
       /\ obs'.clocks = obs.clocks + 1]_vars


(* The bus accesses of a read-modify-write instruction on internal RAM.  What
   a CPU cycle does at address t is read off two more runs of the same
   clock() from machines that differ in the byte at t only: the cycle reads t
   when temp_value follows that byte, and writes t when the byte afterwards
   is the same in both. *)

RmwOpcodes ==
  {code \in 0 .. 255 :
     /\ into_op(code) # <<>>
     /\ into_op(code)[3] = "ReadModifyWrite"
     /\ into_op(code)[2] # "Accumulator"}

RmwValues == {\h01, \h80, \hFF}

RmwIndex == 1

\* The effective address of the operand bytes b in the addressing mode.
RmwTarget(mode, b) ==
  CASE mode = "ZeroPage" -> b[1]
    [] mode = "ZeroPageX" -> (b[1] + RmwIndex) % 256
    [] mode = "Absolute" -> b[1] + 256 * b[2]
    [] mode = "AbsoluteX" -> (b[1] + 256 * b[2] + RmwIndex) % 65536

\* The value a 6502 read-modify-write operation makes of v with carry cy.
RmwModified(kind, v, cy) ==
  CASE kind = "Inc" -> (v + 1) % 256
    [] kind = "Dec" -> (v + 255) % 256
    [] kind = "Asl" -> (v * 2) % 256
    [] kind = "Lsr" -> v \div 2
    [] kind = "Rol" -> (v * 2 + cy) % 256
    [] kind = "Ror" -> v \div 2 + 128 * cy

Poke(n, t, val) == [n EXCEPT !.cpu.internal_ram = VecSet(@, t, val)]

\* What the clock() that took the machine to n did at t, given the machines
\* n1 and n2 the same clock() makes of the machine with $A5 and with $5A at t.
BusAccess(n, n1, n2, t) ==
  IF n1.cpu.temp_value = \hA5 /\ n2.cpu.temp_value = \h5A
  THEN <<"read", n.cpu.temp_value>>
  ELSE IF VecGet(n1.cpu.internal_ram, t) = VecGet(n2.cpu.internal_ram, t)
  THEN <<"write", VecGet(n1.cpu.internal_ram, t)>>
  ELSE <<"none", 0>>

InitRmw ==
  \E op \in RmwOpcodes, b \in Operands, v \in RmwValues, pv \in StatusValues :
    LET t == RmwTarget(into_op(op)[2], b)
        n == Boot([Scenario(0, <<op, b[1], b[2]>>, 0, 0, RmwIndex, RmwIndex, pv,
                            MaxTimingCycles, 0) EXCEPT !.ram = t :> v])
    IN /\ cpu = n.cpu /\ ppu = n.ppu /\ cart = n.cart /\ counter = n.counter
       /\ ret = ""
       /\ drv = [call |-> "none"]
       /\ obs = [kind |-> into_op(op)[1], t |-> t, v |-> v,
                 cy |-> IF has_bits(pv, C) THEN 1 ELSE 0,
                 log |-> <<>>, done |-> FALSE]

\* The host calls Nes::clock() until the instruction has completed; the log
\* keeps the accesses at t of the cycles of the instruction, the last three
\* of them.
RmwClock ==
  /\ ~obs.done /\ ret = ""
  /\ LET last3(q) == IF Len(q) > 3 THEN SubSeq(q, Len(q) - 2, Len(q)) ELSE q
         clocked(n, n1, n2) ==
           /\ Install(n)
           /\ obs' = IF CpuCycle(cpu, n.cpu) /\ ~Suspended(cpu, n.cpu)
                     THEN [obs EXCEPT
                             !.log = last3(Append(@, BusAccess(n, n1, n2, obs.t))),
                             !.done = Completed(cpu, n.cpu)]
                     ELSE obs
     IN clocked(Nes_clock(Machine), Nes_clock(Poke(Machine, obs.t, \hA5)),
                Nes_clock(Poke(Machine, obs.t, \h5A)))
  /\ UNCHANGED drv

NextRmw == RmwClock

SpecRmw == InitRmw /\ [][NextRmw]_vars

\* C31: the last three cycles of a read-modify-write instruction on memory
\* are, at its effective address, a read, a write of the value read and a
\* write of the modified value.
C31_ReadWriteWrite ==
  obs.done =>
    obs.log = <<(<<"read", obs.v>>), (<<"write", obs.v>>),
                (<<"write", RmwModified(obs.kind, obs.v, obs.cy)>>)>>

\* ROR $0300 reached from $02FF,X with the carry set: $80 is read, written
\* back, and $C0 written.
C31_Witness ==
  /\ obs.done /\ obs.kind = "Ror" /\ obs.t = \h0300 /\ obs.cy = 1
  /\ obs.log = <<(<<"read", \h80>>), (<<"write", \h80>>), (<<"write", \hC0>>)>>
  /\ VecGet(cpu.internal_ram, \h0300) = \hC0


(* Read-modify-write instructions on the PRG-RAM of an MMC1 cartridge: the
   instruction at $8000 operates on $6000 (Absolute) or on $5FFF,X with
   X = 1, and LDA $6000 follows it. *)

PrgRamOpcodes ==
  {code \in RmwOpcodes : into_op(code)[2] \in {"Absolute", "AbsoluteX"}}

Mmc1Cart(code, prg_ram) ==
  Cartridge_from("Horizontal",
    Mmc1Mapper_new([len |-> \h8000, fill |-> \hEA,
                    w |-> Bytes(0, code) @@ Bytes(\h7FFA, Vectors)],
                   VecNew(\h20000, 0), prg_ram))

InitPrgRam ==
  \E op \in PrgRamOpcodes, v \in RmwValues, pv \in StatusValues :
    LET operand == IF into_op(op)[2] = "Absolute" THEN <<\h00, \h60>>
                   ELSE <<\hFF, \h5F>>
        n == insert_cartridge(
               Nes_new(VecNew(\h0800, 0)),
               Mmc1Cart(<<op, operand[1], operand[2], \hAD, \h00, \h60>>,
                        VecNew(\h4000, v)))
    IN /\ cpu = [n.cpu EXCEPT !.x = RmwIndex, !.p = pv]
       /\ ppu = n.ppu /\ cart = n.cart /\ counter = n.counter
       /\ ret = ""
       /\ drv = [call |-> "none"]
       /\ obs = [kind |-> into_op(op)[1], v |-> v,
                 cy |-> IF has_bits(pv, C) THEN 1 ELSE 0, done |-> 0]

\* The host calls Nes::clock() until both instructions have completed.
PrgRamClock ==
  /\ obs.done < 2 /\ ret = ""
  /\ LET clocked(n) ==
           /\ Install(n)
           /\ obs' = [obs EXCEPT !.done = IF Completed(cpu, n.cpu) THEN @ + 1 ELSE @]
     IN clocked(Nes_clock(Machine))
  /\ UNCHANGED drv

NextPrgRam == PrgRamClock

SpecPrgRam == InitPrgRam /\ [][NextPrgRam]_vars

\* C32: after a read-modify-write instruction on a PRG-RAM address of an MMC1
\* cartridge, the PRG-RAM cell holds the modified value and a read of the
\* address returns it.
C32_PrgRamStored ==
  obs.done = 2 =>
    /\ VecGet(cart.mapper.prg_ram, 0) = RmwModified(obs.kind, obs.v, obs.cy)
    /\ cpu.a = RmwModified(obs.kind, obs.v, obs.cy)


MaxBankWrites == 5

(* CPU reads of PRG space on the five mappers after writes that put the
   largest values into the PRG bank registers: images of 32 KiB, and of
   128 KiB on UxROM, whose fixed window is inside the image at that size. *)

BankCartridges ==
  {Cartridge_from("Horizontal",
     NromMapper_new(BankedImage(2), VecNew(\h2000, 0))),
   Cartridge_from("Horizontal",
     UxRomMapper_new(BankedImage(8), VecNew(\h2000, 0))),
   Cartridge_from("Horizontal",
     Mmc1Mapper_new(BankedImage(2), VecNew(\h20000, 0), VecNew(\h4000, 0))),
   Cartridge_from("Horizontal",
     Mmc3Mapper_new(BankedImage(2), VecNew(\h40000, 0), VecNew(\h2000, 0))),
   Cartridge_from("Horizontal",
     Mmc4Mapper_new(BankedImage(2), ChrImage, VecNew(\h2000, 0)))}

\* The writes, as <<addr, val, gap>>: the MMC1 PRG bank register bit by bit,
\* MMC3 bank select 6 and bank data, the MMC4 and UxROM bank registers.
BankInputs(kind) ==
  CASE kind = "MMC1" -> {<<\hE000, \h01, 2>>}
    [] kind = "MMC3" -> {<<\h8000, \h06, 1>>, <<\h8001, \h3F, 1>>}
    [] kind = "MMC4" -> {<<\hA000, \h0F, 1>>}
    [] kind = "UXROM" -> {<<\h8000, \h07, 1>>, <<\h8000, \h0F, 1>>}
    [] kind = "NROM" -> {<<\h8000, \hFF, 1>>}

InitBanks == InitCartridge(BankCartridges)

\* Cartridge::cpu_write_u8(addr, val, cycle) on a bank register.
BankWrite ==
  \E in \in BankInputs(cart.mapper.kind) :
    /\ obs.writes < MaxBankWrites
    /\ cart' = cart_cpu_write_u8(cart, in[1], in[2], obs.cycle + in[3])
    /\ obs' = observe_write(obs, in[1], in[2], in[3], cart.mapper, cart'.mapper)
    /\ UNCHANGED <<cpu, ppu, counter, ret, drv>>

NextBanks == BankWrite \/ CartRead

SpecBanks == InitBanks /\ [][NextBanks]_vars

\* C33: on every supported mapper, whatever the PRG-ROM size and the writes
\* to the bank and mode registers, a CPU read of $8000-$FFFF indexes inside
\* the PRG-ROM image.
C33_ReadsInside ==
  (obs.op = "cpu_read" /\ obs.rdAddr \in \h8000 .. \hFFFF) => obs.rdVal # -1


\* C34: after the reset of insert_cartridge() the first CPU cycle fetches the
\* opcode at the reset vector, and while the program (NOPs) writes no $2003,
\* $2004 or $4014 the CPU leaves OAMADDR and OAM as the reset left them.
C34_NoDmaAfterReset ==
  /\ cpu.cycles = 1 => (instruction_ongoing(cpu) /\ cpu.op_start_addr = \h8000)
  /\ ppu.oam_addr = 0
  /\ ppu.primary_oam = Ppu_new.primary_oam


(* Nes::step_instruction() as the loops it is: one action for the call and
   its first clock(), one for every later clock().  The machines are a Nes
   as Nes::new() leaves it, with no cartridge inserted, and one with the
   cartridge of ClockProgram; drv.tick is the parity of the clock() calls
   made. *)

MaxStepCycles == 24

InitStep ==
  \E fill \in RamFills, inserted \in BOOLEAN :
    LET fresh == Nes_new(VecNew(\h0800, fill))
        n == IF inserted THEN insert_cartridge(fresh, NromCart(ClockProgram))
             ELSE fresh
    IN /\ cpu = n.cpu /\ ppu = n.ppu /\ cart = n.cart /\ counter = n.counter
       /\ ret = ""
       /\ drv = [call |-> "none", phase |-> 0, tick |-> 0]
       /\ obs = [calls |-> 0]

\* One iteration of the loops: n is the machine after self.clock(), phase the
\* loop the clock was called in (1: while !instruction_ongoing, 2: while
\* instruction_ongoing).
step_loop(n, phase) ==
  LET ongoing == instruction_ongoing(n.cpu)
      returns == n.err # "" \/ (phase = 2 /\ ~ongoing)
  IN /\ Install(n)
     /\ drv' = [call |-> IF returns THEN "none" ELSE "step_instruction",
                phase |-> IF returns THEN 0 ELSE IF ongoing THEN 2 ELSE 1,
                tick |-> 1 - drv.tick]

\* The host calls step_instruction().
StepBegin ==
  /\ drv.call = "none"
  /\ cpu.cycles < MaxStepCycles
  /\ step_loop(Nes_clock(Machine), IF instruction_ongoing(cpu) THEN 2 ELSE 1)
  /\ obs' = [obs EXCEPT !.calls = 1]

\* The later iterations.
StepLoop ==
  /\ drv.call = "step_instruction"
  /\ \E n \in {Nes_clock(Machine)} : step_loop(n, drv.phase)
  /\ UNCHANGED obs

NextStep == StepBegin \/ StepLoop

\* A call that has begun goes on running its loops.
SpecStep == InitStep /\ [][NextStep]_vars /\ WF_vars(StepLoop)

\* C35: every step_instruction() call returns, with Ok or with the CPU error.
C35_StepReturns == (drv.call = "step_instruction") ~> (drv.call = "none")

(***************************************************************************)
(* The debugger reads: Nes::cpu_read_mem() (nes.rs:189-191) and            *)
(* Nes::cpu_disassembly() (nes.rs:205-222), called between the clock()     *)
(* calls of a running program.                                             *)
(***************************************************************************)

\* LDA #$0F, STA $2006, LDA #$E8, STA $2006: the VRAM address becomes $0FE8.
DebugProgram == <<\hA9, \h0F, \h8D, \h06, \h20, \hA9, \hE8, \h8D, \h06, \h20>>

\* A 32 KiB MMC4 cartridge: code at $8000, NOPs elsewhere.
Mmc4Cart(code) ==
  Cartridge_from("Horizontal",
    Mmc4Mapper_new([len |-> \h8000, fill |-> \hEA,
                    w |-> Bytes(0, code) @@ Bytes(\h7FFA, Vectors)],
                   VecNew(\h20000, 0), VecNew(\h2000, 0)))

MaxDebugCycles == 16

\* RAM, PPUSTATUS, OAMDATA, PPUDATA and its last mirror, the controller
\* port, PRG-RAM, PRG-ROM.
DebugAddrs == {\h0000, \h2002, \h2004, \h2007, \h3FFF, \h4016, \h6000, \h8000}

\* The emulation state of a machine.
EmulationState(n) == <<n.cpu, n.ppu, n.cart, n.counter>>

InitDebug ==
  \E c \in {NromCart(DebugProgram), Mmc4Cart(DebugProgram)} :
    LET n == insert_cartridge(Nes_new(VecNew(\h0800, 0)), c)
    IN /\ cpu = n.cpu /\ ppu = n.ppu /\ cart = n.cart /\ counter = n.counter
       /\ ret = ""
       /\ drv = [call |-> "none"]
       /\ obs = [op |-> "none", same |-> TRUE, pc |-> 0, before |-> <<>>]

DebugClock ==
  /\ drv.call = "none" /\ cpu.cycles < MaxDebugCycles
  /\ \E n \in {Nes_clock(Machine)} : Install(n)
  /\ obs' = [obs EXCEPT !.op = "clock", !.same = TRUE]
  /\ UNCHANGED drv

\* cpu_read_mem(addr).
DebugRead ==
  /\ drv.call = "none"
  /\ \E addr \in DebugAddrs :
       LET read(r) ==
             /\ Install(r.n)
             /\ obs' = [obs EXCEPT
                          !.op = "cpu_read_mem",
                          !.same = (EmulationState(r.n) = EmulationState(Machine))]
       IN read(read_mem_u8(Machine, addr, TRUE))
  /\ UNCHANGED drv

\* cpu_disassembly(), called after the clock() that ends the run; DisChunk
\* addresses at a step, no other call in between.
DebugDisassemble ==
  LET begins == drv.call = "none"
      before == IF begins THEN EmulationState(Machine) ELSE obs.before
      pc == IF begins THEN 0 ELSE obs.pc
      walked(r) ==
        /\ Install(r.n)
        /\ drv' = [call |-> IF r.done THEN "none" ELSE "cpu_disassembly"]
        /\ obs' = [op |-> "cpu_disassembly",
                   same |-> r.done => EmulationState(r.n) = before,
                   pc |-> IF r.done THEN 0 ELSE r.pc,
                   before |-> IF r.done THEN <<>> ELSE before]
  IN /\ \/ drv.call = "cpu_disassembly"
        \/ drv.call = "none" /\ obs.op = "clock" /\ cpu.cycles = MaxDebugCycles
     /\ walked(disassemble(Machine, pc, NoOps, ((pc \div DisChunk) + 1) * DisChunk))

NextDebug == DebugClock \/ DebugRead \/ DebugDisassemble

SpecDebug == InitDebug /\ [][NextDebug]_vars

\* C36: a cpu_read_mem() call on any address, and a cpu_disassembly() call,
\* leave the emulation state as it was before the call: the CPU registers,
\* the controller shift registers, the PPU registers (PPUSTATUS, the write
\* toggle, the PPUDATA read buffer, the VRAM address, the open-bus latch) and
\* the mapper state (bank latches, IRQ flag).
C36_DebugReadsKeepState ==
  (drv.call = "none" /\ obs.op \in {"cpu_read_mem", "cpu_disassembly"}) => obs.same

(***************************************************************************)
(* The VRAM address v over a frame of a program that writes $2000, $2005,  *)
(* $2006 and $2001 and then keeps reading and writing $2007.               *)
(***************************************************************************)

MaxVramFrames == 1

\* The nametable bits written to $2000 (increment 1, NMI off).
VramCtrls == {\h00, \h03}

\* LDA #ctrl; STA $2000; LDA #$FF; STA $2005 (three times); STA $2006;
\* LDA #mask; STA $2001; loop: LDA $2007; STA $2007; JMP loop
VramProgram(ctrl, mask) ==
  <<\hA9, ctrl, \h8D, \h00, \h20, \hA9, \hFF, \h8D, \h05, \h20,
    \h8D, \h05, \h20, \h8D, \h05, \h20, \h8D, \h06, \h20,
    \hA9, mask, \h8D, \h01, \h20,
    \hAD, \h07, \h20, \h8D, \h07, \h20, \h4C, \h18, \h80>>

InitVram ==
  \E ctrl \in VramCtrls, mask \in MaskValues :
    LET n == insert_cartridge(Nes_new(VecNew(\h0800, 0)),
                              NromCart(VramProgram(ctrl, mask)))
    IN /\ cpu = n.cpu /\ ppu = n.ppu /\ cart = n.cart /\ counter = n.counter
       /\ ret = ""
       /\ drv = [call |-> "run"]
       /\ obs = [frames |-> 0]

\* The host calls Nes::clock().
VramClock ==
  /\ ret = "" /\ obs.frames < MaxVramFrames
  /\ LET clocked(n) ==
           /\ Install(n)
           /\ obs' = [obs EXCEPT !.frames =
                         IF frame_completed(n.ppu) THEN @ + 1 ELSE @]
     IN clocked(Nes_clock(Machine))
  /\ UNCHANGED drv

NextVram == VramClock

SpecVram == InitVram /\ [][NextVram]_vars

\* C37: in every reachable state the VRAM address v fits in 15 bits.
C37_VramAddr15Bits == ppu.vram_addr < 32768

(***************************************************************************)
(* The palette through Nes::ppu_write_mem and Nes::ppu_read_mem            *)
(* (nes.rs:197-203), which call Ppu::write_mem_u8 and Ppu::read_mem_u8.    *)
(***************************************************************************)

MaxPaletteWrites == 2

\* Entries 0, 1, 4 and 12 of the palette, the entries $10-$1F that mirror
\* them, and aliases of both in $3F20-$3FFF.
PaletteAddrs ==
  {\h3F00, \h3F01, \h3F04, \h3F0C, \h3F10, \h3F11, \h3F14, \h3F1C,
   \h3F20, \h3F30, \h3F3C, \h3F4C, \h3F50, \h3F6C, \h3FE1, \h3FF1, \h3FFC}

PaletteValues == {\h11, \h2A}

\* The palette entry an address names: $3F00 | (a & $1F), with $10, $14,
\* $18 and $1C naming the entries $00, $04, $08 and $0C.
PaletteEntry(a) ==
  LET e == a % 32
  IN IF e \in {16, 20, 24, 28} THEN e - 16 ELSE e

InitPalette ==
  LET n == insert_cartridge(Nes_new(VecNew(\h0800, 0)), NromCart(ClockProgram))
  IN /\ cpu = n.cpu /\ ppu = n.ppu /\ cart = n.cart /\ counter = n.counter
     /\ ret = ""
     /\ drv = [call |-> "none"]
     /\ obs = [op |-> "none", writes |-> 0, wrAddr |-> 0, wrVal |-> 0,
               rdAddr |-> 0, rdVal |-> 0]

\* ppu_write_mem(addr, val).
PaletteWrite ==
  \E addr \in PaletteAddrs, val \in PaletteValues :
    /\ obs.writes < MaxPaletteWrites
    /\ Install(ppu_write_mem_u8(Machine, addr, val))
    /\ obs' = [obs EXCEPT !.op = "ppu_write_mem", !.writes = @ + 1,
                          !.wrAddr = addr, !.wrVal = val]
    /\ UNCHANGED drv

\* ppu_read_mem(addr).
PaletteRead ==
  \E addr \in PaletteAddrs :
    LET read(r) ==
          /\ Install(r.n)
          /\ obs' = [obs EXCEPT !.op = "ppu_read_mem", !.rdAddr = addr,
                                !.rdVal = r.val]
    IN /\ read(ppu_read_mem_u8(Machine, addr))
       /\ UNCHANGED drv

NextPalette == PaletteWrite \/ PaletteRead

SpecPalette == InitPalette /\ [][NextPalette]_vars

\* C38: a value written through any alias of a palette entry is read back
\* through every alias of that entry: the addresses of $3F20-$3FFF are
\* aliases of $3F00 | (a & $1F), and $3F10, $3F14, $3F18, $3F1C of $3F00,
\* $3F04, $3F08, $3F0C.
C38_PaletteAliases ==
  (/\ obs.op = "ppu_read_mem" /\ obs.writes > 0
   /\ PaletteEntry(obs.rdAddr) = PaletteEntry(obs.wrAddr))
    => obs.rdVal = obs.wrVal

(***************************************************************************)
(* ppu.rs: the pixel pipeline of Ppu::clock(): the background and sprite   *)
(* fetches, the shifters, the copies of sprite_evaluation() into secondary *)
(* OAM, and draw_pixel().  The pipeline reads the dot counters, the        *)
(* registers, the VRAM address and OAM as they are when clock() is called  *)
(* and writes none of them but the sprite 0 hit of PPUSTATUS, so a dot of  *)
(* the pipeline followed by ppu_clock is a dot of Ppu::clock().  The       *)
(* fetches go to the cartridge, which on NROM they leave as it is.         *)
(***************************************************************************)

\* Sprite::default().
Sprite_default ==
  [idx |-> \hFF, active |-> FALSE, x |-> \hFF, y |-> \hFF, tile_idx |-> 0,
   attrs |-> 0, tile_lo |-> 0, tile_hi |-> 0]

\* The pipeline fields of Ppu as Ppu::new() sets them.  display is kept as
\* the pixel written last: its number y * 256 + x and the palette address its
\* colour was read from (-1 before the first pixel; addr -1 when draw_pixel
\* found no palette address and left the pixel as it was).
Pipeline_new ==
  [secondary_oam |-> [i \in 0 .. 7 |-> Sprite_default],
   active_sprites |-> [i \in 0 .. 7 |-> Sprite_default],
   shift_bg_tile_lo |-> 0, shift_bg_tile_hi |-> 0,
   shift_bg_attr_lo |-> 0, shift_bg_attr_hi |-> 0,
   next_nt_tile |-> 0, next_attr_tile |-> 0,
   next_bg_tile_lo |-> 0, next_bg_tile_hi |-> 0,
   sprite_rendering_enabled_by_user |-> TRUE,
   bg_rendering_enabled_by_user |-> TRUE,
   display |-> [idx |-> -1, addr |-> -1]]

\* Bit k of v.
bit(v, k) == (v \div (2 ^ k)) % 2

sprite_rendering_enabled(p) == has_bits(p.ppu_mask, \h10)

background_pattern_table_address(p) ==
  IF bit(p.ppu_ctrl, 4) = 1 THEN \h1000 ELSE \h0000

sprite_pattern_table_address(p) ==
  IF bit(p.ppu_ctrl, 3) = 1 THEN \h1000 ELSE \h0000

use_large_sprites(p) == has_bits(p.ppu_ctrl, \h20)

\* secondary_oam after sprite_evaluation().
secondary_oam_evaluation(p) ==
  LET i == p.sprite_evaluation_idx
      primary_oam_idx == (i % 64) * 4
      y0 == VecGet(p.primary_oam, primary_oam_idx)
      sprite_y == IF y0 = 255 THEN 255 ELSE y0 + 1
      next_y == p.scanline + 1
      sprite_height == IF use_large_sprites(p) THEN 16 ELSE 8
      in_range == /\ next_y > 0 /\ next_y < \hF0
                  /\ next_y >= sprite_y /\ next_y < sprite_y + sprite_height
      seen(sprite) == [sprite EXCEPT !.y = sprite_y, !.idx = i]
      taken(sprite) ==
        [sprite EXCEPT !.active = TRUE,
                       !.x = VecGet(p.primary_oam, primary_oam_idx + 3),
                       !.attrs = VecGet(p.primary_oam, primary_oam_idx + 2),
                       !.tile_idx = VecGet(p.primary_oam, primary_oam_idx + 1)]
  IN IF i >= 64 \/ p.found_sprites >= 8 THEN p.secondary_oam
     ELSE [p.secondary_oam EXCEPT
             ![p.found_sprites] = IF in_range THEN taken(seen(@)) ELSE seen(@)]

\* The byte Ppu::read_mem_u8 returns in the machine n0.
pipeline_read(n0, addr) == ppu_read_mem_u8(n0, addr).val

\* load_nametable_byte .. load_high_bg_tile_byte, on the pipeline fields p of
\* the machine n0.
load_nametable_byte(p, n0) ==
  [p EXCEPT !.next_nt_tile = pipeline_read(n0, \h2000 + (p.vram_addr % \h1000))]

load_attribute_table_byte(p, n0) ==
  LET tile_x == p.vram_addr % 32
      tile_y == (p.vram_addr \div 32) % 32
      addr == \h23C0 + BitAnd(p.vram_addr, NAMETABLE_X_BITS + NAMETABLE_Y_BITS)
              + (tile_y \div 4) * 8 + (tile_x \div 4)
      shift == (bit(tile_x, 1) + 2 * bit(tile_y, 1)) * 2
  IN [p EXCEPT !.next_attr_tile = (pipeline_read(n0, addr) \div (2 ^ shift)) % 4]

load_low_bg_tile_byte(p, n0) ==
  [p EXCEPT !.next_bg_tile_lo =
      pipeline_read(n0, background_pattern_table_address(p) + p.next_nt_tile * 16
          + ((p.vram_addr \div 4096) % 8))]

load_high_bg_tile_byte(p, n0) ==
  [p EXCEPT !.next_bg_tile_hi =
      pipeline_read(n0, background_pattern_table_address(p) + p.next_nt_tile * 16
          + ((p.vram_addr \div 4096) % 8) + 8)]

advance_bg_shifters(p) ==
  IF background_rendering_enabled(p)
  THEN [p EXCEPT !.shift_bg_tile_lo = (@ * 2) % 65536,
                 !.shift_bg_tile_hi = (@ * 2) % 65536,
                 !.shift_bg_attr_lo = (@ * 2) % 65536,
                 !.shift_bg_attr_hi = (@ * 2) % 65536]
  ELSE p

load_bg_shift_registers(p) ==
  [p EXCEPT !.shift_bg_tile_lo = (@ \div 256) * 256 + p.next_bg_tile_lo,
            !.shift_bg_tile_hi = (@ \div 256) * 256 + p.next_bg_tile_hi,
            !.shift_bg_attr_lo = (@ \div 256) * 256 + bit(p.next_attr_tile, 0) * \hFF,
            !.shift_bg_attr_hi = (@ \div 256) * 256 + bit(p.next_attr_tile, 1) * \hFF]

sprite_addr(p, i) ==
  LET sprite == p.active_sprites[i]
      next_y == p.scanline + 1
      flip_vertical == has_bits(sprite.attrs, \h80)
      rows == (next_y + 65536 - sprite.y) % 65536
      local_y == IF flip_vertical THEN 7 - (rows % 8) ELSE rows % 8
      tile == IF use_large_sprites(p) THEN sprite.tile_idx - (sprite.tile_idx % 2)
              ELSE sprite.tile_idx
      sprite_tile ==
        IF use_large_sprites(p)
           /\ ((rows > 7 /\ ~flip_vertical) \/ (rows <= 7 /\ flip_vertical))
        THEN tile + 1 ELSE tile
      pattern_table == IF use_large_sprites(p) THEN (sprite.tile_idx % 2) * 4096
                       ELSE sprite_pattern_table_address(p)
  IN pattern_table + sprite_tile * 16 + local_y

\* load_low_sprite_tile_byte, load_high_sprite_tile_byte: cyc is the dot.
load_low_sprite_tile_byte(p, cyc, n0) ==
  LET sprite_idx == (cyc - 261) \div 8
  IN IF p.active_sprites[sprite_idx].active
     THEN [p EXCEPT !.active_sprites[sprite_idx].tile_lo =
                       pipeline_read(n0, sprite_addr(p, sprite_idx))]
     ELSE p

load_high_sprite_tile_byte(p, cyc, n0) ==
  LET sprite_idx == (cyc - 261) \div 8
  IN IF p.active_sprites[sprite_idx].active
     THEN [p EXCEPT !.active_sprites[sprite_idx].tile_hi =
                       pipeline_read(n0, sprite_addr(p, sprite_idx) + 8)]
     ELSE p

\* draw_pixel() at dot cyc.  The for loop over the active sprites that cover
\* x is given by the slots it looks at: those with a non-zero pixel, up to and
\* including the first of them that is in front of the background or finds
\* the background pixel transparent, where the loop breaks.
draw_pixel(p, cyc) ==
  LET x == cyc - 1
      y == p.scanline
      bg_on == background_rendering_enabled(p)
      bit_pos == 15 - p.pixel_x
      bg_pixel_index == 2 * bit(p.shift_bg_tile_hi, bit_pos)
                        + bit(p.shift_bg_tile_lo, bit_pos)
      bg_palette_index == 2 * bit(p.shift_bg_attr_hi, bit_pos)
                          + bit(p.shift_bg_attr_lo, bit_pos)
      bg_opaque == bg_on /\ bg_pixel_index # 0
      bg_addr == IF ~bg_on \/ ~p.bg_rendering_enabled_by_user THEN -1
                 ELSE IF bg_pixel_index = 0 THEN \h3F00
                 ELSE \h3F00 + bg_palette_index * 4 + bg_pixel_index
      local_x(sprite) == IF has_bits(sprite.attrs, \h40) THEN 7 - (x - sprite.x)
                         ELSE x - sprite.x
      pixel_index(sprite) == 2 * bit(sprite.tile_hi, 7 - local_x(sprite))
                             + bit(sprite.tile_lo, 7 - local_x(sprite))
      covering == {i \in 0 .. 7 : /\ p.active_sprites[i].active
                                  /\ x >= p.active_sprites[i].x
                                  /\ x < p.active_sprites[i].x + 8}
      solid == {i \in covering : pixel_index(p.active_sprites[i]) # 0}
      behind_background(i) == has_bits(p.active_sprites[i].attrs, \h20)
      breaking == {i \in solid : ~behind_background(i) \/ ~bg_opaque}
      last == IF breaking = {} THEN 8
              ELSE CHOOSE i \in breaking : \A j \in breaking : i <= j
      looked == IF sprite_rendering_enabled(p) THEN {i \in solid : i <= last}
                ELSE {}
      hit == bg_opaque /\ \E i \in looked : p.active_sprites[i].idx = 0
      sprite_palette(sprite) ==
        \h3F10 + (sprite.attrs % 4) * 4 + pixel_index(sprite)
      palette_addr ==
        IF last \in looked /\ p.sprite_rendering_enabled_by_user
        THEN sprite_palette(p.active_sprites[last])
        ELSE bg_addr
      status(q) == IF hit THEN set_ppu_status(q, BitOr(q.ppu_status, \h40)) ELSE q
  IN [status(p) EXCEPT !.display = [idx |-> y * 256 + x, addr |-> palette_addr]]

\* The pipeline's part of Ppu::clock().
pixel_pipeline(n0) ==
  LET p0 == n0.ppu
      sl == p0.scanline
      skip == p0.cycle = 0 /\ sl = 0 /\ p0.odd_frame
              /\ background_rendering_enabled(p0)
      cyc == IF skip THEN p0.cycle + 1 ELSE p0.cycle
      visible == sl \in 0 .. 239
      onLine == visible \/ sl = 261
      oam(p) ==
        IF visible /\ cyc \in 1 .. 64
        THEN [p EXCEPT !.secondary_oam = [i \in 0 .. 7 |-> Sprite_default]]
        ELSE IF visible /\ cyc \in 65 .. 256
        THEN [p EXCEPT !.secondary_oam = secondary_oam_evaluation(p)]
        ELSE p
      garbage(p) ==
        CASE onLine /\ cyc = 257 -> load_nametable_byte(p, n0)
          [] onLine /\ cyc = 259 -> load_attribute_table_byte(p, n0)
          [] OTHER -> p
      fetching == onLine /\ (cyc \in 1 .. 256 \/ cyc \in 321 .. 337)
      shifted(p) == IF fetching /\ cyc > 1 THEN advance_bg_shifters(p) ELSE p
      fetched(p) ==
        CASE fetching /\ cyc % 8 = 1 ->
               load_nametable_byte(IF cyc > 1 THEN load_bg_shift_registers(p) ELSE p, n0)
          [] fetching /\ cyc % 8 = 3 -> load_attribute_table_byte(p, n0)
          [] fetching /\ cyc % 8 = 5 -> load_low_bg_tile_byte(p, n0)
          [] fetching /\ cyc % 8 = 6 -> load_high_bg_tile_byte(p, n0)
          [] OTHER -> p
      drawn(p) == IF visible /\ cyc \in 1 .. 256 THEN draw_pixel(p, cyc) ELSE p
      activated(p) ==
        IF onLine /\ cyc = 257 THEN [p EXCEPT !.active_sprites = p.secondary_oam]
        ELSE p
      tail(p) ==
        IF onLine /\ cyc \in {337, 339} THEN load_nametable_byte(p, n0) ELSE p
      sprites(p) ==
        CASE onLine /\ cyc \in 261 .. 320 /\ cyc % 8 = 1 -> load_nametable_byte(p, n0)
          [] onLine /\ cyc \in 261 .. 320 /\ cyc % 8 = 3 ->
               load_attribute_table_byte(p, n0)
          [] onLine /\ cyc \in 261 .. 320 /\ cyc % 8 = 5 ->
               load_low_sprite_tile_byte(p, cyc, n0)
          [] onLine /\ cyc \in 261 .. 320 /\ cyc % 8 = 6 ->
               load_high_sprite_tile_byte(p, cyc, n0)
          [] OTHER -> p
  IN sprites(tail(activated(drawn(fetched(shifted(garbage(oam(p0))))))))

\* Nes::clock() with the pipeline.
Nes_clock_pixels(n) ==
  IF ~n.cart.valid THEN Nes_clock(n)
  ELSE Nes_clock([n EXCEPT !.ppu = pixel_pipeline(n)])

(***************************************************************************)
(* Scenes of two sprites over a background, drawn by the pipeline.  The    *)
(* cartridge's CHR holds the tiles: tile 1, of the sprites, has pixel      *)
(* value 1 everywhere; tile 0, which the zeroed nametables show            *)
(* everywhere, has pixel value 1 everywhere in the scenes with an opaque   *)
(* background and 0 in the others.  The host writes OAM and PPUMASK        *)
(* through Nes::cpu_write_mem and clocks the machine while the program     *)
(* loops.  Sprite 0 is at (sx, SceneY), in front of or behind the          *)
(* background, with palette 0; sprite 1, when the scene has it, is at the  *)
(* same place in front of the background with palette 1.  The other 62     *)
(* sprites are as Ppu::new() leaves OAM: at y = 0, on the lines 1-8.       *)
(***************************************************************************)

SceneY == 8

\* The lines clocked: those of the sprites of OAM's power-on content and
\* the first line of the scene's sprites.
MaxSceneLines == 10

SceneXs == {0, 100, 255}

\* loop: JMP loop
SceneProgram == <<\h4C, \h00, \h80>>

SolidTile == <<\hFF, \hFF, \hFF, \hFF, \hFF, \hFF, \hFF, \hFF>>

\* The host calls Nes::cpu_write_mem(addr, val) for each <<addr, val>>.
RECURSIVE cpu_write_all(_, _)
cpu_write_all(n, writes) ==
  IF writes = <<>> THEN n
  ELSE cpu_write_all(write_mem_u8(n, Head(writes)[1], Head(writes)[2]),
                     Tail(writes))

InitSprites ==
  \E sx \in SceneXs, opaque \in BOOLEAN, behind \in BOOLEAN, second \in BOOLEAN :
    LET chr == [len |-> \h2000, fill |-> 0,
                w |-> IF opaque THEN Bytes(0, SolidTile) @@ Bytes(16, SolidTile)
                      ELSE Bytes(16, SolidTile)]
        c == Cartridge_from("Horizontal",
               NromMapper_new([len |-> \h4000, fill |-> \hEA,
                               w |-> Bytes(0, SceneProgram) @@ Bytes(\h3FFA, Vectors)],
                              chr))
        oam == <<SceneY, 1, IF behind THEN \h20 ELSE \h00, sx,
                 IF second THEN SceneY ELSE \hF0, 1, \h01, sx>>
        n == cpu_write_all(
               insert_cartridge(Nes_new(VecNew(\h0800, 0)), c),
               <<<<\h2003, 0>>>> \o [i \in 1 .. 8 |-> <<\h2004, oam[i]>>]
               \o <<<<\h2001, \h18>>>>)
    IN /\ cpu = n.cpu /\ ppu = n.ppu @@ Pipeline_new
       /\ cart = n.cart /\ counter = n.counter
       /\ ret = ""
       /\ drv = [call |-> "run", sx |-> sx, opaque |-> opaque, behind |-> behind,
                 second |-> second]
       /\ obs = [hit |-> FALSE, drawn |-> FALSE]

\* The host calls Nes::clock().
SpriteClock ==
  /\ ret = "" /\ ppu.scanline < MaxSceneLines
  /\ \E n \in {Nes_clock_pixels(Machine)} :
       /\ Install(n)
       /\ obs' = [hit |-> /\ ~has_bits(ppu.ppu_status, \h40)
                          /\ has_bits(n.ppu.ppu_status, \h40),
                  drawn |-> n.ppu.display.idx # ppu.display.idx]
  /\ UNCHANGED drv

NextSprites == SpriteClock

SpecSprites == InitSprites /\ [][NextSprites]_vars

\* The pixel drawn last.
PixelX == ppu.display.idx % 256

PixelY == ppu.display.idx \div 256

\* Sprite 0 of the scene (and sprite 1, when the scene has it) has a non-zero
\* pixel at (x, y).
SpriteZeroAt(x, y) ==
  /\ x \in drv.sx .. drv.sx + 7
  /\ y \in SceneY + 1 .. SceneY + 8

\* C39: the sprite 0 hit is set by a dot only when a non-zero pixel of
\* sprite 0 lies over an opaque background pixel there and the pixel's x is
\* neither 0 nor 255.
C39_SpriteZeroHit ==
  obs.hit => /\ SpriteZeroAt(PixelX, PixelY) /\ drv.opaque
             /\ PixelX \notin {0, 255}

\* C40: at a pixel where sprites have a non-zero pixel, the first of them in
\* secondary-OAM order (here sprite 0) decides the sprite layer: behind an
\* opaque background pixel the background colour is output ($3F01, pixel
\* value 1 of background palette 0), and else the sprite's ($3F11, pixel
\* value 1 of sprite palette 0); no later sprite is output there.
C40_FirstSpriteDecides ==
  (obs.drawn /\ SpriteZeroAt(PixelX, PixelY))
    => ppu.display.addr = IF drv.behind /\ drv.opaque THEN \h3F01 ELSE \h3F11

====
